---- MODULE Spec2Model ----
(***************************************************************************)
(* Model of the detection pipeline of backend/engine.py (ForensicsEngine). *)
(*                                                                         *)
(* Accounts are numbered 1..NumAccounts; the numeric order stands for the  *)
(* lexicographic order of the account-id strings.  Ring risk scores and    *)
(* suspicion scores are kept in hundredths of a point (2500 = 25.0), ring  *)
(* confidences in thousandths (950 = 0.95).  df holds the transaction rows *)
(* as <<sender, receiver>> pairs in file order; the multigraph G is kept   *)
(* as its adjacency maps and its degrees, which count parallel edges.      *)
(* Quantities that the code derives from amounts and timestamps (which     *)
(* cycles validate, which accounts trip a velocity window, the anomaly     *)
(* scorer's output, ...) are inputs chosen from bounded sets by the stage  *)
(* that reads them.                                                        *)
(***************************************************************************)
EXTENDS Integers, Sequences, FiniteSets, TLC

\* ----------------------------------------------------------------- bounds
\* Accounts 1..NumFocus carry the structured part of a dataset (rings,
\* chains, hubs); the NumLeaves accounts after them only ever send to a hub.
NumFocus == 6
NumLeaves == 13
NumAccounts == NumFocus + NumLeaves
\* Accounts of the validated cycles handed to the size-bounded merging
MergeNodes == 33
\* Accounts of the densest table searched: every ordered pair transacts once
CliqueSize == 9
\* The shell web: the paying accounts, the pass-through accounts of each of
\* its two layers, and the accounts paid out to
\* The amounts of the edges chosen for the hops of one cycle, and the longest
\* cycle whose amounts are enumerated
MinHopAmount == 8
MaxHopAmount == 23
MaxHops == 4
WebSources == 3
WebShells == 5
WebEnds == 3
Accounts == 1..NumAccounts
Focus == 1..NumFocus
Leaves == (NumFocus + 1)..NumAccounts
\* Accounts the immunity layer may match in one dataset.
MaxImmune == 1
\* Transactions per counterparty pair in the busy-hub dataset.
TxPerPair == 4
\* Focus accounts of one dataset whose timestamps and amounts raise signals.
MaxSignalAccounts == 1
\* The anomaly bonus (hundredths) of the accounts between the extremes.
AnomalyLevel == 496
\* Accounts of one dataset that pass the shell passthrough test.
MaxShellCandidates == 2
\* Receivers of the one-sender payroll table, and of the smurf hub every leaf sends to.
PayrollReceivers == 15
SmurfSenders == 12
SmurfReceivers == 3
\* The amount a payroll receiver gets, the transactions of one structuring
\* batch and their amount.
PayrollAmount == 3000
StructuringBatch == 5
BandAmount == 9000
\* The amount the triangles' hops are compared with, and the amounts explored.
BaseAmount == 1000
TriangleAmounts == {700, 850, 1000, 1150, 1151}

\* ------------------------------------------------------ program constants
MAX_RING_SIZE == 30
MAX_CYCLES == 2000
MAX_DEPTH == 5
MAX_OPS_PER_NODE == 5000
MAX_CYCLE_DEGREE == 20
MAX_SMURF_RING_SIZE == 15
FLAG_THRESHOLD == 2500
RING_SIZE_CAP == 15
MERGE_OVERLAP_PCT == 60
MIN_RING_MEMBERS == 3
MAX_SHELL_RINGS == 50
SHELL_DEGREE_LIMIT == 4
MIN_INTERMEDIARIES == 1
MAX_CHAIN_PATHS == 50
MAX_CHAIN_NODES == 4
SHELL_MAX_COMPONENT == 12
SHELL_MAX_AVG_DEGREE == 4
SHELL_MAX_NODE_DEGREE == 8
TIER2_MIN_EVENTS == 5
LOW_VARIANCE_MIN_AMOUNTS == 2
HUB_MIN_DEGREE == 50
SMURF_MIN_COMBINED == 40
SMURF_MIN_RING_SIZE == 4
STRUCTURING_MIN_HITS == 5
STRUCTURING_MIN_WINDOWS == 2
BASE_SCORE_CAP == 7000
ANOMALY_MAX == 1500
ISOLATION_NEIGHBOUR_SCORE == 3000
ISOLATION_BONUS == 800
UNIQUE_IN_THRESHOLD == 5
MERCHANT_MIN_SENDERS == 10
PAYROLL_MIN_INBOUND == 4
REQUIRED_COLUMNS == {"transaction_id", "sender_id", "receiver_id", "amount", "timestamp"}
\* timedelta(hours=1) and timedelta(hours=72), in minutes
HOUR == 60
CYCLE_WINDOW == 72 * HOUR
\* `<= 0.15` and `< 0.70` of _check_cycle_constraints, in percent
UNIFORMITY_PCT == 15
FLOW_RATIO_PCT == 70
\* timedelta(hours=48), ratio_threshold, simple_ratio_threshold and the rule 5
\* limit of detect_shells
SHELL_WINDOW == 48 * HOUR
PASSTHROUGH_PCT == 70
SIMPLE_RATIO_PCT == 50
SHELL_FLOW_PCT == 30
\* detect_velocity: the 24-hour window, `cv < 0.2`, and the hub filter's
\* 0.70 * span, `cv < 0.5` and 0.25 * span
DAY == 24 * HOUR
LOW_VARIANCE_PCT == 20
HUB_ACTIVITY_PCT == 70
HUB_CV_PCT == 50
HUB_GAP_PCT == 25
\* _detect_business_immunity: dominant_ratio > 0.7, out_count <= 3 or
\* out/in < 0.1 (payroll); out_count <= 2 or out/in < 0.05 (merchant)
DOMINANT_PCT == 70
PAYROLL_MAX_OUT == 3
PAYROLL_OUT_PCT == 10
MERCHANT_MAX_OUT == 2
MERCHANT_OUT_PCT == 5
\* _extract_smurf_candidates: WINDOW_72H and the 24-hour buffer for outbound
SMURF_WINDOW == 72 * HOUR
SMURF_OUT_BUFFER == 24 * HOUR
\* detect_structuring: BANDS and WINDOW_48H
BANDS == {<< 8000, 9999 >>, << 4000, 4999 >>}
STRUCTURING_WINDOW == 48 * HOUR
\* max(2, ...) of _adaptive_ext_degree_limit
EXT_DEGREE_FLOOR == 2
\* `self._median_degree > 8`
BUSY_MEDIAN_DEGREE == 8

CycleLabels == {"cycle_length_3", "cycle_length_4", "cycle_length_5"}
Labels == CycleLabels \cup
          {"shell_account", "smurfing", "fan_in", "fan_out", "structuring",
           "high_velocity", "high_velocity_24h", "low_variance",
           "isolation_cluster", "payroll", "merchant"}
\* The values a smurf scoring factor takes, in tenths; the datasets explored score 0.5 or 1.0
FactorScores == {5, 10}
PatternTypes == {"cycle", "smurfing", "shell_network"}

\* ------------------------------------------------------- generic helpers
Min(S) == CHOOSE x \in S : \A y \in S : x <= y
Max(S) == CHOOSE x \in S : \A y \in S : x >= y
MinOf(a, b) == IF a <= b THEN a ELSE b
MaxOf(a, b) == IF a >= b THEN a ELSE b
Range(s) == {s[i] : i \in DOMAIN s}

\* sorted(S): the ascending list of a set of accounts.
RECURSIVE SortedSeq(_)
SortedSeq(S) == IF S = {} THEN << >>
                ELSE LET m == Min(S) IN << m >> \o SortedSeq(S \ {m})

\* list[:n]
Prefix(s, n) == SubSeq(s, 1, MinOf(n, Len(s)))

\* Python's sorted()/list.sort() is stable: an element goes after every
\* element whose key is smaller and after the earlier elements of equal key.
\* s is a sequence of <<key, value>>.
StableSortPairs(s) ==
    LET rank == [i \in DOMAIN s |->
                   Cardinality({j \in DOMAIN s :
                                  \/ s[j][1] < s[i][1]
                                  \/ s[j][1] = s[i][1] /\ j <= i})]
    IN [r \in 1..Len(s) |-> s[CHOOSE i \in DOMAIN s : rank[i] = r]]

Values(pairs) == [i \in DOMAIN pairs |-> pairs[i][2]]

\* The sets of at most k elements of S
RECURSIVE UpTo(_, _)
UpTo(S, k) == IF k = 0 THEN {{}}
              ELSE LET P == UpTo(S, k - 1) IN P \cup {p \cup {x} : p \in P, x \in S}

\* ------------------------------------------------------------- ring ids
DigitChar(d) == CASE d = 0 -> "0" [] d = 1 -> "1" [] d = 2 -> "2" [] d = 3 -> "3"
                  [] d = 4 -> "4" [] d = 5 -> "5" [] d = 6 -> "6" [] d = 7 -> "7"
                  [] d = 8 -> "8" [] d = 9 -> "9"

RECURSIVE DecimalDigits(_)
DecimalDigits(n) == IF n < 10 THEN << DigitChar(n) >>
                    ELSE Append(DecimalDigits(n \div 10), DigitChar(n % 10))

RECURSIVE ZeroPad(_, _)
ZeroPad(ds, width) == IF Len(ds) >= width THEN ds ELSE ZeroPad(<< "0" >> \o ds, width)

\* f"RING_{n:03d}" as its list of characters; "" is << >>.
RingId(n) == << "R", "I", "N", "G", "_" >> \o ZeroPad(DecimalDigits(n), 3)

\* ------------------------------------------------- stage 2b: arbitration
TYPE_PRIORITY(t) == CASE t = "cycle" -> 0
                      [] t = "smurfing" -> 1
                      [] t = "shell_network" -> 2
                      [] OTHER -> 99

\* key of sorted_cands: (-confidence_score, TYPE_PRIORITY)
CandSortKey(c) == (1000 - c.confidence_score) * 100 + TYPE_PRIORITY(c.pattern_type)

SortCandidates(cands) ==
    Values(StableSortPairs([i \in DOMAIN cands |-> << CandSortKey(cands[i]), cands[i] >>]))

\* Python compares pattern_type strings: "cycle" < "shell_network" < "smurfing".
PatternTypeRank(t) == CASE t = "cycle" -> 0
                        [] t = "shell_network" -> 1
                        [] t = "smurfing" -> 2

\* key of final_rings.sort: (-risk_score, pattern_type)
RingSortKey(r) == (10000 - r.risk_score) * 10 + PatternTypeRank(r.pattern_type)

\* Faulty variant: the rings left in the order arbitration accepted them.
SortRings_AcceptOrder(rings) == rings

SortRings(rings) ==
    Values(StableSortPairs([i \in DOMAIN rings |-> << RingSortKey(rings[i]), rings[i] >>]))

AssignRingIds(rings) == [i \in DOMAIN rings |-> [rings[i] EXCEPT !.ring_id = RingId(i)]]

\* The loop state of _arbitrate_rings: final_rings, used_nodes, node_to_ring_idx
\* (ring indexes are 1-based here).
ArbStart == [rings |-> << >>, used |-> {}, idx |-> << >>]

\* overlap_ratio > 0.6
OverlapExceeds(overlap, members) ==
    members # {} /\ Cardinality(overlap) * 100 > MERGE_OVERLAP_PCT * Cardinality(members)

\* ring_overlap_counts
RingOverlapCounts(st, overlap) ==
    [r \in {st.idx[n] : n \in overlap} |-> Cardinality({n \in overlap : st.idx[n] = r})]

\* max(ring_overlap_counts, key=ring_overlap_counts.get) returns the first
\* maximal key in the dict's insertion order, which is the iteration order of
\* the set `overlap`: a set of str, ordered by the process's string hashes.
\* Every ring holding a maximal share of the overlap can come first.
BestRingChoices(st, overlap) ==
    LET counts == RingOverlapCounts(st, overlap)
    IN {r \in DOMAIN counts : \A q \in DOMAIN counts : counts[q] <= counts[r]}

\* Faulty variant: a merge that takes every new node, whatever the ring's size.
MergeNewNodes_NoBudget(target, members) == members \ Range(target.member_accounts)

\* new_nodes of the merge path, after the 15-member budget of a non-cycle target
MergeNewNodes(target, members) ==
    LET current == Range(target.member_accounts)
        fresh == members \ current
    IN IF target.pattern_type # "cycle"
       THEN Range(Prefix(SortedSeq(fresh), MaxOf(0, RING_SIZE_CAP - Cardinality(current))))
       ELSE fresh

\* Faulty variant: new nodes appended after the current members, unsorted.
MergedMemberList_Appended(current, new_nodes) ==
    SortedSeq(current) \o SortedSeq(new_nodes \ current)

\* target_ring["member_accounts"] = sorted(current_members)
MergedMemberList(current, new_nodes) == SortedSeq(current \cup new_nodes)

MergeInto(st, cand, best) ==
    LET target == st.rings[best]
        members == Range(cand.members)
        new_nodes == MergeNewNodes(target, members)
        merged == [target EXCEPT
                     !.member_accounts = MergedMemberList(Range(target.member_accounts), new_nodes),
                     !.risk_score = MaxOf(target.risk_score, cand.risk_score)]
        used2 == st.used \cup new_nodes
    IN [rings |-> [st.rings EXCEPT ![best] = merged],
        used |-> used2,
        idx |-> [n \in used2 |-> IF n \in new_nodes THEN best ELSE st.idx[n]]]

\* Faulty variant: the accepted ring also takes the candidate's core account.
AcceptedMembers_WithCore(cand) ==
    LET all == SortedSeq(Range(cand.members)
                           \cup (IF cand.core_account # 0 THEN {cand.core_account} ELSE {}))
    IN IF cand.pattern_type # "cycle" /\ Len(all) > RING_SIZE_CAP
       THEN Prefix(all, RING_SIZE_CAP) ELSE all

\* ring_members of the accept path: sorted(members), cut to 15 unless a cycle
AcceptedMembers(cand) ==
    LET all == SortedSeq(Range(cand.members))
    IN IF cand.pattern_type # "cycle" /\ Len(all) > RING_SIZE_CAP
       THEN Prefix(all, RING_SIZE_CAP) ELSE all

AcceptRing(st, cand) ==
    LET ring_members == AcceptedMembers(cand)
        ring_idx == Len(st.rings) + 1
        used2 == st.used \cup Range(ring_members)
    IN IF Len(ring_members) < MIN_RING_MEMBERS THEN st
       ELSE [rings |-> Append(st.rings,
                              [ring_id |-> << >>,
                               member_accounts |-> ring_members,
                               pattern_type |-> cand.pattern_type,
                               risk_score |-> cand.risk_score]),
             used |-> used2,
             idx |-> [n \in used2 |-> IF n \in Range(ring_members) THEN ring_idx
                                      ELSE st.idx[n]]]

\* One iteration of `for cand in sorted_cands`: the set of states it can end in.
ArbitrateOne(st, cand) ==
    LET members == Range(cand.members)
        overlap == members \cap st.used
    IN IF OverlapExceeds(overlap, members)
       THEN {MergeInto(st, cand, best) : best \in BestRingChoices(st, overlap)}
       ELSE {AcceptRing(st, cand)}

RECURSIVE ArbitrateLoop(_, _, _)
ArbitrateLoop(cands, i, st) ==
    IF i > Len(cands) THEN {st}
    ELSE UNION {ArbitrateLoop(cands, i + 1, s2) : s2 \in ArbitrateOne(st, cands[i])}

\* _arbitrate_rings(candidates): every list of rings one call can return.
ArbitrateRings(candidates) ==
    IF candidates = << >> THEN {<< >>}
    ELSE {AssignRingIds(SortRings(st.rings)) :
            st \in ArbitrateLoop(SortCandidates(candidates), 1, ArbStart)}

\* ------------------------------------------------------- the loaded graph
VARIABLES
    pc,                     \* the stage run_all is about to execute ("load" before load_data)
    loaded,                 \* whether load_data has set self.df and self.G
    raised,                 \* the exception that escaped to the caller, "none" if none did
    df,                     \* self.df: the rows <<sender, receiver>> in timestamp order
    tx,                     \* the rows' [amount, timestamp]; << >> when they are left open
    G,                      \* self.G: successors, predecessors and degrees per account
    nodes,                  \* list(self.G.nodes()): accounts in insertion order
    stats,                  \* the dataset statistics of _compute_dataset_stats
    immune_accounts,        \* self._immune_accounts
    account_patterns,       \* self.account_patterns (an absent key is the empty set)
    velocity_accounts,      \* self._velocity_accounts
    velocity_24h_accounts,  \* self._velocity_24h_accounts
    high_degree_hubs,       \* self._high_degree_hubs
    found_cycles,           \* detect_cycles' found_cycles (node lists of validated cycles)
    smurf_candidates,       \* self._smurf_candidates
    candidate_rings,        \* self._candidate_rings
    fraud_rings,            \* self.fraud_rings
    rerun_rings,            \* self.fraud_rings of a second run on the same input
    preliminary_scores,     \* calculate_suspicion_scores' preliminary_scores
    suspicion_scores,       \* self.suspicion_scores
    suspicious_accounts,    \* generate_json()["suspicious_accounts"]
    dfs_start,              \* detect_cycles: position of `start` in sorted(eligible)
    dfs_stack,              \* detect_cycles: the paths on `stack`
    dfs_ops,                \* detect_cycles: `ops`
    dfs_seen,               \* detect_cycles: `seen_canonical`
    uf_merge,               \* detect_cycles: `uf`, `group_sizes` and the cycle last merged
    arb,                    \* _arbitrate_rings: the loop state before and after one candidate
    walk,                   \* _find_shell_chains: `stack`, `results`, `paths_found`
    picked                  \* _check_cycle_constraints: `amounts` and the test that returned

\* What load_data writes
load_vars == << loaded, raised, df, tx, G, nodes, stats >>

\* The locals of the loops that are followed step by step
dfs_vars == << dfs_start, dfs_stack, dfs_ops, dfs_seen, uf_merge, arb, walk, picked >>

vars == << pc, load_vars, dfs_vars, immune_accounts, account_patterns, velocity_accounts,
           velocity_24h_accounts, high_degree_hubs, found_cycles, smurf_candidates,
           candidate_rings, fraud_rings, rerun_rings, preliminary_scores,
           suspicion_scores, suspicious_accounts >>

\* Edge sets the datasets are assembled from.
Ring(p) == {<< p[i], p[(i % Len(p)) + 1] >> : i \in DOMAIN p}
Path(p) == {<< p[i], p[i + 1] >> : i \in 1..(Len(p) - 1)}
Fan(h) == {<< l, h >> : l \in Leaves}

\* The counterparty graphs explored: rings, a ring with a tail, two rings
\* bridged both ways, a 3-cycle sharing nodes with a 4-cycle, and hubs every leaf sends to.
Graphs ==
    { Ring(<<1, 2, 3>>),
      Ring(<<1, 2, 3>>) \cup Path(<<3, 4, 5>>),
      Ring(<<1, 2, 3>>) \cup Ring(<<4, 5, 6>>) \cup Path(<<2, 4>>) \cup Path(<<5, 1>>),
      Ring(<<1, 2, 3>>) \cup Path(<<3, 4, 1>>),
      Fan(1) \cup Path(<<1, 2>>),
      Fan(1) \cup Ring(<<1, 2, 3>>),
      Fan(1) \cup Fan(2) \cup Path(<<1, 3>>) \cup Path(<<2, 3, 4>>) }

\* A graph whose hub trades often enough with each counterparty to pass the
\* degree test of the commercial-hub filter.
BusyGraph == Fan(1) \cup Path(<<1, 2>>)

\* The MultiDiGraph load_data builds from the rows: adjacency both ways, and
\* the degrees, which count parallel edges.
BuildGraph(rows) ==
    [succ |-> [n \in Accounts |-> {rows[i][2] : i \in {j \in DOMAIN rows : rows[j][1] = n}}],
     pred |-> [n \in Accounts |-> {rows[i][1] : i \in {j \in DOMAIN rows : rows[j][2] = n}}],
     in_degree |-> [n \in Accounts |-> Cardinality({i \in DOMAIN rows : rows[i][2] = n})],
     out_degree |-> [n \in Accounts |-> Cardinality({i \in DOMAIN rows : rows[i][1] = n})]]

Successors(n) == G.succ[n]
Predecessors(n) == G.pred[n]
Neighbours(n) == Predecessors(n) \cup Successors(n)
InDegree(n) == G.in_degree[n]
OutDegree(n) == G.out_degree[n]
TotalDegree(n) == InDegree(n) + OutDegree(n)
\* The (m, succ) pairs of `for m in member_set: for succ in self.G.successors(m)`
SuccessorPairs(member_set) == UNION {{<< m, v >> : v \in Successors(m)} : m \in member_set}
NodeSet == Range(nodes)

\* self.df after sort_values("timestamp"): the rows as (sender, receiver), in
\* ascending or descending pair order.
RECURSIVE Reverse(_)
Reverse(s) == IF s = << >> THEN << >> ELSE Append(Reverse(Tail(s)), Head(s))
RowOrders(g) ==
    LET keys == SortedSeq({e[1] * 100 + e[2] : e \in g})
        asc == [i \in DOMAIN keys |-> << keys[i] \div 100, keys[i] % 100 >>]
    IN {asc, Reverse(asc)}

RECURSIVE Repeat(_, _)
Repeat(rows, times) == IF times = 0 THEN << >> ELSE rows \o Repeat(rows, times - 1)

\* One transaction per counterparty pair, or TxPerPair of them for the busy hub.
Datasets ==
    UNION {RowOrders(g) : g \in Graphs}
    \cup {Repeat(rows, TxPerPair) : rows \in RowOrders(BusyGraph)}

\* The accounts of a set of codes key * 100 + account, in ascending order of
\* the codes
OrderedBy(codes) ==
    LET keys == SortedSeq(codes)
    IN [i \in DOMAIN keys |-> keys[i] % 100]

\* G.nodes(): add_edge(u, v) registers u, then v, the first time each is met
FirstSeen(rows) ==
    LET Pos(n) == Min({2 * i - (IF rows[i][1] = n THEN 1 ELSE 0) :
                       i \in {j \in DOMAIN rows : n \in {rows[j][1], rows[j][2]}}})
    IN OrderedBy({Pos(x) * 100 + x :
                    x \in {rows[i][1] : i \in DOMAIN rows} \cup {rows[i][2] : i \in DOMAIN rows}})

\* G.successors(u): the receivers of u in the order their first edge was added
SuccessorSeq(u) ==
    LET Pos(v) == Min({i \in DOMAIN df : df[i] = << u, v >>})
    IN OrderedBy({Pos(x) * 100 + x : x \in {df[i][2] : i \in {j \in DOMAIN df : df[j][1] = u}}})

NoPatterns == [a \in Accounts |-> {}]

\* ------------------------------------------------------------- load_data
\* Timestamps are minutes after the first transaction of the table; amounts
\* are whole dollars.
TriangleRows == << <<1, 2>>, <<2, 3>>, <<3, 1>> >>
PayrollRows == [i \in 1..PayrollReceivers |-> << 1, i + 1 >>]
SmurfHubRows ==
    [i \in 1..SmurfSenders |-> << NumFocus + i, 1 >>] \o [i \in 1..SmurfReceivers |-> << 1, i + 1 >>]

Cell(amount, timestamp) == [amount |-> amount, timestamp |-> timestamp, numeric |-> TRUE]
\* A row whose amount pd.to_numeric(errors="coerce") turns into NaN
Unreadable(timestamp) == [amount |-> 0, timestamp |-> timestamp, numeric |-> FALSE]

\* Triangles whose amounts and timestamps are given: the hops one hour apart
\* or a minute more, the last one up to a minute past the 72-hour window, and
\* amounts on and next to the 15% and 0.70 boundaries.
TriangleData ==
    { << Cell(a1, 0), Cell(a2, t2), Cell(a3, t3) >> :
        a1 \in TriangleAmounts, a2 \in TriangleAmounts, a3 \in TriangleAmounts,
        t2 \in {HOUR, HOUR + 1, CYCLE_WINDOW},
        t3 \in {2 * HOUR, CYCLE_WINDOW, CYCLE_WINDOW + 1} }
    \cup { << Cell(BaseAmount, 0), Cell(BaseAmount, HOUR), Unreadable(2 * HOUR) >> }

\* One sender paying PayrollReceivers accounts about PayrollAmount each, every
\* `gap` minutes: the same amount for all, or amounts 2% under and over it
PayrollData ==
    { [i \in 1..PayrollReceivers |->
         Cell(PayrollAmount + ((i % 3) - 1) * step, (i - 1) * gap)] :
        step \in {0, PayrollAmount \div 50}, gap \in {HOUR, 3 * HOUR} }

\* One sender paying StructuringBatch accounts a band amount an hour apart,
\* then as many again from `later` on
StructuringRows == [i \in 1..(2 * StructuringBatch) |-> << 1, i + 1 >>]
StructuringData ==
    { [i \in 1..(2 * StructuringBatch) |->
         Cell(amount, IF i <= StructuringBatch THEN (i - 1) * HOUR
                      ELSE later + (i - StructuringBatch - 1) * HOUR)] :
        amount \in {BandAmount, BaseAmount},
        later \in {STRUCTURING_WINDOW - 1, STRUCTURING_WINDOW, 3 * DAY} }

\* The uploaded tables: every required column or one of them missing; rows
\* whose cells are left open, the empty table, and tables with their cells.
InputTables ==
    { [columns |-> REQUIRED_COLUMNS, rows |-> rows, cells |-> << >>] :
        rows \in Datasets \cup {SmurfHubRows, << >>} }
    \cup { [columns |-> REQUIRED_COLUMNS, rows |-> TriangleRows, cells |-> cells] :
             cells \in TriangleData }
    \cup { [columns |-> REQUIRED_COLUMNS, rows |-> PayrollRows, cells |-> cells] :
             cells \in PayrollData }
    \cup { [columns |-> REQUIRED_COLUMNS, rows |-> StructuringRows, cells |-> cells] :
             cells \in StructuringData }
    \cup { [columns |-> REQUIRED_COLUMNS \ {c}, rows |-> rows, cells |-> << >>] :
             c \in REQUIRED_COLUMNS, rows \in {<< >>, TriangleRows} }

\* df.dropna(subset=["amount", "timestamp"]) then sort_values("timestamp"):
\* the indices of the rows kept, in timestamp order (ties keep table order)
KeptRows(table) ==
    IF table.cells = << >> THEN [i \in DOMAIN table.rows |-> i]
    ELSE LET kept == SelectSeq([i \in DOMAIN table.rows |-> i],
                               LAMBDA i : table.cells[i].numeric)
         IN Values(StableSortPairs([k \in DOMAIN kept |->
                                      << table.cells[kept[k]].timestamp, kept[k] >>]))

RECURSIVE SumSeq(_)
SumSeq(s) == IF s = << >> THEN 0 ELSE Head(s) + SumSeq(Tail(s))

\* The degree statistics in whole numbers: median2 is twice np.median(degrees),
\* and np.std(degrees) is sqrt(spread) / count (population deviation), with
\* spread = count * sum(d^2) - sum(d)^2.  An empty graph keeps 2.0 and 1.0.
DegreeStats(g, ns) ==
    LET n == Len(ns)
        degrees == [i \in DOMAIN ns |-> g.in_degree[ns[i]] + g.out_degree[ns[i]]]
        sorted == Values(StableSortPairs([i \in DOMAIN ns |-> << degrees[i], degrees[i] >>]))
        total == SumSeq(degrees)
    IN IF n = 0 THEN [median2 |-> 4, count |-> 1, spread |-> 1, top |-> 2]
       ELSE [median2 |-> IF n % 2 = 1 THEN 2 * sorted[(n + 1) \div 2]
                         ELSE sorted[n \div 2] + sorted[n \div 2 + 1],
             count |-> n,
             spread |-> n * SumSeq([i \in DOMAIN ns |-> degrees[i] * degrees[i]]) - total * total,
             top |-> sorted[n]]

\* int(median + (c2 / 2) * std): the largest k with k <= median + (c2 / 2) * std,
\* that is 2k <= median2 or (count * (2k - median2))^2 <= c2^2 * spread
AdaptiveDegree(st, c2) ==
    Max({k \in 0..((c2 + 1) * st.top) :
           \/ 2 * k <= st.median2
           \/ st.count * st.count * (2 * k - st.median2) * (2 * k - st.median2)
                <= c2 * c2 * st.spread})

\* _compute_dataset_stats, with the limits the detectors derive from the
\* degree statistics (no stage changes the statistics after load_data)
ComputeDatasetStats(g, ns, cells) ==
    LET st == DegreeStats(g, ns)
    IN [median2 |-> st.median2,
        count |-> st.count,
        spread |-> st.spread,
        time_span |-> IF cells = << >> THEN 0
                      ELSE cells[Len(cells)].timestamp - cells[1].timestamp,
        adaptive_ext_degree_limit |-> MaxOf(EXT_DEGREE_FLOOR, AdaptiveDegree(st, 3)),
        max_cycle_degree |-> MaxOf(MAX_CYCLE_DEGREE, AdaptiveDegree(st, 4)),
        adaptive_shell_degree |-> MaxOf(SHELL_DEGREE_LIMIT, AdaptiveDegree(st, 1)),
        min_intermediaries |-> IF st.median2 > 2 * BUSY_MEDIAN_DEGREE
                               THEN MIN_INTERMEDIARIES + 1 ELSE MIN_INTERMEDIARIES]

\* The statistics __init__ sets
InitialStats ==
    [median2 |-> 4, count |-> 1, spread |-> 1, time_span |-> 0,
     adaptive_ext_degree_limit |-> EXT_DEGREE_FLOOR,
     max_cycle_degree |-> MAX_CYCLE_DEGREE,
     adaptive_shell_degree |-> SHELL_DEGREE_LIMIT,
     min_intermediaries |-> MIN_INTERMEDIARIES]

MissingColumns(table) == REQUIRED_COLUMNS \ table.columns

\* The fields a table leaves behind when it has every required column
Accepted(table) ==
    LET kept == KeptRows(table)
        rows == [i \in DOMAIN kept |-> table.rows[kept[i]]]
        cells == IF table.cells = << >> THEN << >>
                 ELSE [i \in DOMAIN kept |-> table.cells[kept[i]]]
        g == BuildGraph(rows)
        ns == FirstSeen(rows)
    IN [raised |-> raised, loaded |-> TRUE, df |-> rows, tx |-> cells,
        G |-> g, nodes |-> ns, stats |-> ComputeDatasetStats(g, ns, cells)]

\* Faulty variant: scoring called before the pattern hierarchy
NextStage_ScoreBeforeHierarchy(stage) ==
    CASE stage = "immunity"      -> "cycles"
      [] stage = "cycles"        -> "shells"
      [] stage = "shells"        -> "velocity"
      [] stage = "velocity"      -> "smurf_extract"
      [] stage = "smurf_extract" -> "smurf_score"
      [] stage = "smurf_score"   -> "structuring"
      [] stage = "structuring"   -> "cleanup"
      [] stage = "cleanup"       -> "consolidate"
      [] stage = "consolidate"   -> "scoring"
      [] stage = "scoring"       -> "hierarchy"
      [] stage = "hierarchy"     -> "json"
      [] stage = "json"          -> "done"

\* run_all: the call that follows each call, down to the return of
\* generate_json
NextStage(stage) ==
    CASE stage = "immunity"      -> "cycles"
      [] stage = "cycles"        -> "shells"
      [] stage = "shells"        -> "velocity"
      [] stage = "velocity"      -> "smurf_extract"
      [] stage = "smurf_extract" -> "smurf_score"
      [] stage = "smurf_score"   -> "structuring"
      [] stage = "structuring"   -> "cleanup"
      [] stage = "cleanup"       -> "consolidate"
      [] stage = "consolidate"   -> "hierarchy"
      [] stage = "hierarchy"     -> "scoring"
      [] stage = "scoring"       -> "json"
      [] stage = "json"          -> "done"

\* A load_data that stores the table before it looks at the columns
LoadResult_AssignFirst(table) ==
    IF MissingColumns(table) # {}
    THEN [Accepted(table) EXCEPT !.raised = "ValueError"]
    ELSE Accepted(table)

\* A load_data that also refuses a table without rows
LoadResult_RejectEmpty(table) ==
    IF MissingColumns(table) # {} \/ table.rows = << >>
    THEN [raised |-> "ValueError", loaded |-> loaded, df |-> df, tx |-> tx,
          G |-> G, nodes |-> nodes, stats |-> stats]
    ELSE Accepted(table)

\* The fields load_data leaves behind for a table: nothing is assigned when
\* a required column is missing
LoadResult(table) ==
    IF MissingColumns(table) # {}
    THEN [raised |-> "ValueError", loaded |-> loaded, df |-> df, tx |-> tx,
          G |-> G, nodes |-> nodes, stats |-> stats]
    ELSE Accepted(table)

\* POST /analyze: engine.load_data(df); run_all() follows only when load_data
\* returned, a ValueError becomes the 422 response.
LoadData ==
    /\ pc = "load"
    /\ \E table \in InputTables :
         LET result == LoadResult(table)
         IN /\ raised' = result.raised
            /\ loaded' = result.loaded
            /\ df' = result.df
            /\ tx' = result.tx
            /\ G' = result.G
            /\ nodes' = result.nodes
            /\ stats' = result.stats
            /\ pc' = IF result.raised = "ValueError" THEN "rejected" ELSE "immunity"
    /\ UNCHANGED << dfs_vars, immune_accounts, account_patterns, velocity_accounts,
                    velocity_24h_accounts, high_degree_hubs, found_cycles,
                    smurf_candidates, candidate_rings, fraud_rings, rerun_rings,
                    preliminary_scores, suspicion_scores, suspicious_accounts >>

\* uf = UnionFind(), group_sizes = {}; find(x) enters an unknown x as its
\* own parent with rank 0, so parent and rank are total and `known` holds the
\* keys of uf.parent
NewUnionFind(universe) ==
    [uf |-> [parent |-> [a \in universe |-> a], rank |-> [a \in universe |-> 0]],
     known |-> {}, sizes |-> << >>]

\* No candidate: the value of `cand` before the loop's first iteration
NoCandidate ==
    [members |-> << >>, pattern_type |-> "", risk_score |-> 0, confidence_score |-> 0,
     core_account |-> 0]

\* The engine after ForensicsEngine()
Init ==
    /\ arb = [st |-> ArbStart, prev |-> ArbStart, cand |-> NoCandidate, target |-> 0,
              pending |-> << >>, entered |-> FALSE, stepped |-> FALSE]
    /\ picked = [amounts |-> << >>, verdict |-> "none"]
    /\ walk = [source |-> 0, shell_candidates |-> {}, stack |-> << >>, results |-> << >>,
               paths_found |-> 0, pops |-> 0]
    /\ dfs_start = 0 /\ dfs_stack = << >> /\ dfs_ops = 0 /\ dfs_seen = {}
    /\ uf_merge = [m |-> NewUnionFind(1..MergeNodes), cyc |-> << >>, merged_size |-> 0,
                   merged |-> {}]
    /\ pc = "load"
    /\ loaded = FALSE
    /\ raised = "none"
    /\ df = << >>
    /\ tx = << >>
    /\ G = BuildGraph(<< >>)
    /\ nodes = << >>
    /\ stats = InitialStats
    /\ immune_accounts = {}
    /\ account_patterns = NoPatterns
    /\ velocity_accounts = {}
    /\ velocity_24h_accounts = {}
    /\ high_degree_hubs = {}
    /\ found_cycles = << >>
    /\ smurf_candidates = << >>
    /\ candidate_rings = << >>
    /\ fraud_rings = << >>
    /\ rerun_rings = << >>
    /\ preliminary_scores = << >>
    /\ suspicion_scores = << >>
    /\ suspicious_accounts = << >>

\* The rows' amounts and timestamps are known
DataKnown == tx # << >>

\* _get_edges_between(G, u, v): the rows u -> v
EdgesBetween(u, v) == {i \in DOMAIN df : df[i] = << u, v >>}
\* The rows an account sends and the rows it receives
SentRows(acc) == {i \in DOMAIN df : df[i][1] = acc}
ReceivedRows(acc) == {i \in DOMAIN df : df[i][2] = acc}

\* account_patterns[acc].add(label) for every acc of a set
AddLabel(patterns, accs, label) ==
    [a \in Accounts |-> IF a \in accs THEN patterns[a] \cup {label} ELSE patterns[a]]

\* ------------------------------------------- stage 0: business immunity
\* in_count >= 4; the dominant-sender and redistribution tests read amounts.
PayrollPossible(n) == InDegree(n) >= PAYROLL_MIN_INBOUND
\* len(unique_senders) >= 10; the negligible-outbound test reads amounts.
MerchantPossible(n) == Cardinality(Predecessors(n)) >= MERCHANT_MIN_SENDERS

\* The loop body of _detect_business_immunity for one node: payroll first
\* (`continue`), merchant only when payroll did not match.
ImmunityLabel(n, payroll_sig, merchant_sig) ==
    IF n \in payroll_sig THEN {"payroll"}
    ELSE IF n \in merchant_sig THEN {"merchant"}
    ELSE {}

\* ---- the amount tests on rows whose amounts are known
\* sum of the amounts of a set of rows
RECURSIVE SumAmounts(_)
SumAmounts(rows) ==
    IF rows = {} THEN 0
    ELSE LET i == CHOOSE i \in rows : TRUE IN tx[i].amount + SumAmounts(rows \ {i})

\* Faulty variant: the test applied to what the account pays out, so that
\* the paying account is the one matched
PayrollMatch_Sender(n) ==
    LET out_sum == SumAmounts(SentRows(n))
    IN OutDegree(n) >= PAYROLL_MIN_INBOUND /\ out_sum > 0 /\ InDegree(n) <= PAYROLL_MAX_OUT

\* in_count >= 4, in_sum > 0, dominant_ratio > 0.7 and no_redistribution
PayrollMatch(n) ==
    LET in_sum == SumAmounts(ReceivedRows(n))
        out_sum == SumAmounts(SentRows(n))
        max_sender_vol == Max({SumAmounts(EdgesBetween(p, n)) : p \in Predecessors(n)})
    IN /\ PayrollPossible(n) /\ in_sum > 0
       /\ 100 * max_sender_vol > DOMINANT_PCT * in_sum
       /\ \/ OutDegree(n) <= PAYROLL_MAX_OUT
          \/ 100 * out_sum < PAYROLL_OUT_PCT * in_sum

\* len(unique_senders) >= 10 and negligible_out
MerchantMatch(n) ==
    LET in_sum == SumAmounts(ReceivedRows(n))
        out_sum == SumAmounts(SentRows(n))
    IN /\ MerchantPossible(n)
       /\ \/ OutDegree(n) <= MERCHANT_MAX_OUT
          \/ in_sum > 0 /\ 100 * out_sum < MERCHANT_OUT_PCT * in_sum

\* The accounts passing the payroll and the merchant test: computed from the
\* cells when they are known, else any the counts allow, MaxImmune in all
ImmunityOutcomes ==
    IF DataKnown
    THEN {<< {n \in NodeSet : PayrollMatch(n)}, {n \in NodeSet : MerchantMatch(n)} >>}
    ELSE {sig \in (SUBSET {n \in NodeSet : PayrollPossible(n)})
                    \X (SUBSET {n \in NodeSet : MerchantPossible(n)}) :
            Cardinality(sig[1] \cup sig[2]) <= MaxImmune}

DetectBusinessImmunity ==
    /\ pc = "immunity"
    /\ \E sig \in ImmunityOutcomes :
       LET payroll_sig == sig[1]
           merchant_sig == sig[2]
       IN
        /\ immune_accounts' = payroll_sig \cup merchant_sig
        /\ account_patterns' =
             [a \in Accounts |->
                account_patterns[a] \cup ImmunityLabel(a, payroll_sig, merchant_sig)]
    /\ pc' = NextStage("immunity")
    /\ UNCHANGED << load_vars, dfs_vars, velocity_accounts, velocity_24h_accounts, high_degree_hubs,
                    found_cycles, smurf_candidates, candidate_rings, fraud_rings,
                    rerun_rings, preliminary_scores, suspicion_scores, suspicious_accounts >>

\* --------------------------------------------- stage 1a: cycle detection
\* total_deg of the eligibility filter against
\* max_cycle_degree = max(20, int(median + 2.0 * std))
EligibleDegree(n) == LET total_deg == TotalDegree(n)
                     IN 2 <= total_deg /\ total_deg <= stats.max_cycle_degree
CycleEligible == {n \in NodeSet : EligibleDegree(n)}

\* adjacency[u]: the eligible successors of an eligible u, sorted
Adjacency(u) ==
    IF EligibleDegree(u)
    THEN SortedSeq({v \in Successors(u) : EligibleDegree(v) /\ v # u})
    ELSE << >>

\* _canonicalize_cycle: the rotation that starts at the smallest node
CanonicalizeCycle(path) ==
    LET k == CHOOSE i \in DOMAIN path : path[i] = Min(Range(path))
    IN SubSeq(path, k, Len(path)) \o SubSeq(path, 1, k - 1)

\* The `for neighbor in adjacency[current]` loop of one pop: acc is
\* [stack, found]; valid holds the canonical cycles _validate_cycle_edges accepts.
RECURSIVE VisitNeighbours(_, _, _, _, _, _)
VisitNeighbours(adj, k, start, path, valid, acc) ==
    IF k > Len(adj) THEN acc
    ELSE LET nb == adj[k]
             canonical == CanonicalizeCycle(path)
             next ==
               IF nb = start /\ Len(path) >= 3
               THEN IF canonical \notin {CanonicalizeCycle(c) : c \in Range(acc.found)}
                       /\ canonical \in valid
                    THEN [acc EXCEPT !.found = Append(@, path)]
                    ELSE acc
               ELSE IF nb \in Range(path) \/ Len(path) >= MAX_DEPTH THEN acc
               ELSE [acc EXCEPT !.stack = Append(@, Append(path, nb))]
         IN VisitNeighbours(adj, k + 1, start, path, valid, next)

\* The `while stack` loop from one start node; stack holds the paths, whose
\* last node is `current`.
RECURSIVE SearchFrom(_, _, _, _)
SearchFrom(start, valid, ops, acc) ==
    IF acc.stack = << >> \/ ops + 1 > MAX_OPS_PER_NODE THEN acc.found
    ELSE LET path == acc.stack[Len(acc.stack)]
             popped == [acc EXCEPT !.stack = SubSeq(@, 1, Len(@) - 1)]
         IN IF Len(path) > MAX_DEPTH
            THEN SearchFrom(start, valid, ops + 1, popped)
            ELSE SearchFrom(start, valid, ops + 1,
                            VisitNeighbours(Adjacency(path[Len(path)]), 1, start,
                                            path, valid, popped))

\* The `for start in sorted(eligible)` loop.
RECURSIVE SearchCycles(_, _, _, _)
SearchCycles(starts, k, valid, found) ==
    IF k > Len(starts) THEN found
    ELSE IF Adjacency(starts[k]) = << >> THEN SearchCycles(starts, k + 1, valid, found)
    ELSE IF Len(found) >= MAX_CYCLES THEN found
    ELSE SearchCycles(starts, k + 1, valid,
                      SearchFrom(starts[k], valid, 0,
                                 [stack |-> << << starts[k] >> >>, found |-> found]))

\* Every simple cycle of length 3..5 over eligible nodes, in canonical form:
\* the cycles the search can meet and hand to _validate_cycle_edges.
RECURSIVE SimplePaths(_)
SimplePaths(len) ==
    IF len = 1 THEN {<< n >> : n \in CycleEligible}
    ELSE UNION {{Append(p, v) : v \in {w \in Successors(p[Len(p)]) :
                                         /\ EligibleDegree(w)
                                         /\ w \notin Range(p) /\ w > p[1]}} :
                p \in SimplePaths(len - 1)}

GraphCycles ==
    UNION {{p \in SimplePaths(len) : p[1] \in Successors(p[len])} : len \in 3..MAX_DEPTH}

\* ---- _validate_cycle_edges on rows whose amounts and timestamps are known
AbsDiff(a, b) == IF a >= b THEN a - b ELSE b - a

\* _external_degree_in_window: transactions of node with accounts outside the
\* cycle, timestamps within [ts_min, ts_max]
ExternalDegreeInWindow(node, cycle_nodes_set, ts_min, ts_max) ==
    Cardinality({i \in DOMAIN df :
                   /\ \/ df[i][2] = node /\ df[i][1] \notin cycle_nodes_set
                      \/ df[i][1] = node /\ df[i][2] \notin cycle_nodes_set
                   /\ ts_min <= tx[i].timestamp /\ tx[i].timestamp <= ts_max})

\* Faulty variant: a span of exactly 72 hours is rejected too
WithinCycleWindow_Exclusive(ts_min, ts_max) == ~(ts_max - ts_min >= CYCLE_WINDOW)

\* 1. `(ts_max - ts_min) > timedelta(hours=72)` rejects
WithinCycleWindow(ts_min, ts_max) == ~(ts_max - ts_min > CYCLE_WINDOW)

\* Faulty variant: a tolerance of 30% around the mean.
UniformAmounts_Loose(amounts) ==
    LET n == Len(amounts)
        total == SumSeq(amounts)
    IN \A i \in DOMAIN amounts :
          100 * AbsDiff(n * amounts[i], total) <= 2 * UNIFORMITY_PCT * total

\* 2. all(abs(a - mean_amount) / mean_amount <= 0.15), mean = total / n
UniformAmounts(amounts) ==
    LET n == Len(amounts)
        total == SumSeq(amounts)
    IN \A i \in DOMAIN amounts :
          100 * AbsDiff(n * amounts[i], total) <= UNIFORMITY_PCT * total

\* 3. `flow_ratio < 0.70` rejects, flow_ratio = min / max (0 when max is 0)
FlowConserved(amounts) ==
    LET lo == Min(Range(amounts))
        hi == Max(Range(amounts))
    IN ~((IF hi > 0 THEN 100 * lo ELSE 0) < FLOW_RATIO_PCT * (IF hi > 0 THEN hi ELSE 1))

\* _check_cycle_constraints for one edge per hop; chosen[i] is the row of hop i
CheckCycleConstraints(cycle_path, chosen) ==
    LET timestamps == [i \in DOMAIN chosen |-> tx[chosen[i]].timestamp]
        amounts == [i \in DOMAIN chosen |-> tx[chosen[i]].amount]
        ts_min == Min(Range(timestamps))
        ts_max == Max(Range(timestamps))
    IN /\ WithinCycleWindow(ts_min, ts_max)
       /\ SumSeq(amounts) # 0
       /\ UniformAmounts(amounts)
       /\ FlowConserved(amounts)
       /\ \A k \in DOMAIN cycle_path :
             ExternalDegreeInWindow(cycle_path[k], Range(cycle_path), ts_min, ts_max)
               <= stats.adaptive_ext_degree_limit

\* _recurse: the selections of one edge for each of the first idx hops
RECURSIVE EdgeChoices(_, _)
EdgeChoices(cycle_path, idx) ==
    IF idx = 0 THEN {<< >>}
    ELSE LET u == cycle_path[idx]
             v == cycle_path[(idx % Len(cycle_path)) + 1]
         IN {Append(chosen, e) : chosen \in EdgeChoices(cycle_path, idx - 1),
                                 e \in EdgesBetween(u, v)}

\* _validate_cycle_edges: some choice of one edge per hop passes the check
ValidateCycleEdges(cycle_path) ==
    \E chosen \in EdgeChoices(cycle_path, Len(cycle_path)) :
       CheckCycleConstraints(cycle_path, chosen)

\* The outcomes of _validate_cycle_edges over the cycles of the graph: computed
\* from the rows' cells when they are known, any outcome otherwise
ValidationOutcomes ==
    IF DataKnown THEN {{c \in GraphCycles : ValidateCycleEdges(c)}}
    ELSE SUBSET GraphCycles

\* uf.find(x) on the parent map (path compression moves no root)
RECURSIVE UFFind(_, _)
UFFind(parent, x) == IF parent[x] = x THEN x ELSE UFFind(parent, parent[x])

\* uf.union(a, b): union by rank
UFUnion(uf, a, b) ==
    LET ra0 == UFFind(uf.parent, a)
        rb0 == UFFind(uf.parent, b)
        swap == uf.rank[ra0] < uf.rank[rb0]
        ra == IF swap THEN rb0 ELSE ra0
        rb == IF swap THEN ra0 ELSE rb0
    IN IF ra0 = rb0 THEN uf
       ELSE [uf EXCEPT !.parent[rb] = ra,
                       !.rank[ra] = IF uf.rank[ra] = uf.rank[rb] THEN @ + 1 ELSE @]

RECURSIVE UFUnionAll(_, _, _)
UFUnionAll(uf, cyc, k) ==
    IF k > Len(cyc) THEN uf ELSE UFUnionAll(UFUnion(uf, cyc[1], cyc[k]), cyc, k + 1)

\* merged_size of one cycle before it is unioned
MergedSize(m, cyc) ==
    LET roots == {UFFind(m.uf.parent, n) : n \in Range(cyc)}
        RECURSIVE Sum(_)
        Sum(R) == IF R = {} THEN 0
                  ELSE LET r == CHOOSE r \in R : TRUE
                       IN (IF r \in DOMAIN m.sizes THEN m.sizes[r] ELSE 1) + Sum(R \ {r})
    IN Sum(roots)

\* Faulty variant: every cycle is unioned, whatever the merged size
MergeCycle_Unbounded(m, cyc) ==
    LET size == MergedSize(m, cyc)
        uf2 == UFUnionAll(m.uf, cyc, 2)
        root == UFFind(uf2.parent, cyc[1])
    IN [uf |-> uf2, known |-> m.known \cup Range(cyc),
        sizes |-> [r \in DOMAIN m.sizes \cup {root} |->
                     IF r = root THEN size ELSE m.sizes[r]]]

\* One iteration of the size-bounded merging loop; m is
\* [uf, known (the keys of uf.parent), sizes (group_sizes)].
MergeCycle(m, cyc) ==
    LET size == MergedSize(m, cyc)
        known2 == m.known \cup Range(cyc)
        uf2 == UFUnionAll(m.uf, cyc, 2)
        root == UFFind(uf2.parent, cyc[1])
    IN IF size > MAX_RING_SIZE THEN [m EXCEPT !.known = known2]
       ELSE [uf |-> uf2, known |-> known2,
             sizes |-> [r \in DOMAIN m.sizes \cup {root} |->
                          IF r = root THEN size ELSE m.sizes[r]]]

RECURSIVE MergeCycles(_, _, _)
MergeCycles(m, cycles, k) ==
    IF k > Len(cycles) THEN m ELSE MergeCycles(MergeCycle(m, cycles[k]), cycles, k + 1)

\* uf.groups() after the merging loop: root -> members
CycleGroups(cycles) ==
    LET m == MergeCycles(NewUnionFind(Accounts), cycles, 1)
        roots == {UFFind(m.uf.parent, n) : n \in m.known}
    IN [r \in roots |-> {n \in m.known : UFFind(m.uf.parent, n) = r}]

\* account_cycle_lengths
AccountCycleLengths(cycles, a) == {Len(c) : c \in {d \in Range(cycles) : a \in Range(d)}}

CycleLengthLabel(len) == CASE len = 3 -> "cycle_length_3"
                           [] len = 4 -> "cycle_length_4"
                           [] len = 5 -> "cycle_length_5"

\* Whether a merged group keeps an account as ring member (immune ones are left out).
CycleRingMember(m, immune) == m \notin immune

\* The candidate ring of one merged group (lines 366-402).
CycleCandidate(members, cycles, immune) ==
    LET non_immune == {m \in members : CycleRingMember(m, immune)}
        all_lengths == UNION {AccountCycleLengths(cycles, m) : m \in non_immune}
        total_ext == LET RECURSIVE Ext(_)
                         Ext(S) == IF S = {} THEN 0
                                   ELSE LET n == CHOOSE n \in S : TRUE
                                        IN Cardinality(Successors(n) \ non_immune)
                                           + Cardinality(Predecessors(n) \ non_immune)
                                           + Ext(S \ {n})
                     IN Ext(non_immune)
        confidence == 900 + (IF all_lengths # {} /\ Min(all_lengths) = 3 THEN 50 ELSE 0)
                          + (IF total_ext <= 2 * Cardinality(non_immune) THEN 50 ELSE 0)
        base_risk == 5000 + (IF all_lengths # {} THEN (5 - Min(all_lengths)) * 1000 ELSE 0)
                          + MinOf(3000, Cardinality(non_immune) * 200)
    IN [members |-> SortedSeq(non_immune),
        pattern_type |-> "cycle",
        risk_score |-> MinOf(10000, base_risk),
        confidence_score |-> MinOf(1000, confidence),
        core_account |-> 0]

\* for _root, members in sorted(merged_groups.items()): the rings appended
RECURSIVE CycleCandidates(_, _, _, _)
CycleCandidates(groups, roots, cycles, immune) ==
    IF roots = << >> THEN << >>
    ELSE LET members == groups[Head(roots)]
             rest == CycleCandidates(groups, Tail(roots), cycles, immune)
         IN IF Cardinality({m \in members : CycleRingMember(m, immune)}) < MIN_RING_MEMBERS
            THEN rest
            ELSE << CycleCandidate(members, cycles, immune) >> \o rest

DetectCycles ==
    /\ pc = "cycles"
    /\ \E valid \in ValidationOutcomes :
         LET found == SearchCycles(SortedSeq(CycleEligible), 1, valid, << >>)
             groups == CycleGroups(found)
         IN /\ found_cycles' = found
            /\ account_patterns' =
                 [a \in Accounts |->
                    account_patterns[a] \cup
                    (IF found # << >> /\ a \in UNION {groups[r] : r \in DOMAIN groups}
                     THEN {CycleLengthLabel(l) : l \in AccountCycleLengths(found, a)}
                     ELSE {})]
            /\ candidate_rings' =
                 candidate_rings \o
                 (IF found = << >> THEN << >>
                  ELSE CycleCandidates(groups, SortedSeq(DOMAIN groups), found,
                                       immune_accounts))
    /\ pc' = NextStage("cycles")
    /\ UNCHANGED << load_vars, dfs_vars, immune_accounts, velocity_accounts, velocity_24h_accounts,
                    high_degree_hubs, smurf_candidates, fraud_rings, rerun_rings,
                    preliminary_scores, suspicion_scores, suspicious_accounts >>

\* ------------------------------------------- stage 1b: shell detection
\* The structural part of the shell-candidate filter: degree 2..adaptive limit,
\* inbound and outbound edges, a predecessor and a successor that differ.
\* The passthrough test reads amounts and timestamps.
ShellCandidatePossible(n) ==
    /\ TotalDegree(n) >= 2 /\ TotalDegree(n) <= stats.adaptive_shell_degree
    /\ \E p \in Predecessors(n), q \in Successors(n) : p # q /\ p # n /\ q # n

\* ---- the passthrough test on rows whose amounts and timestamps are known
\* in_edges: the rows into node, predecessor by predecessor in the order
\* G.predecessors lists them, each predecessor's rows in table order
InEdgeRows(node) ==
    LET First(p) == Min(EdgesBetween(p, node))
    IN OrderedBy({(First(df[i][1]) * 100 + i) * 100 + i :
                    i \in {j \in DOMAIN df : df[j][2] = node}})

\* out_edges, successor by successor
OutEdgeRows(node) ==
    LET First(q) == Min(EdgesBetween(node, q))
    IN OrderedBy({(First(df[i][2]) * 100 + i) * 100 + i :
                    i \in {j \in DOMAIN df : df[j][1] = node}})

RowAmounts(rows) == [k \in DOMAIN rows |-> tx[rows[k]].amount]

\* The inner loop over out_edges for one inbound edge: the first outbound edge
\* not earlier and at most 48 hours later forwards min(amounts)
RECURSIVE ForwardedOf(_, _)
ForwardedOf(ie, outs) ==
    IF outs = << >> THEN 0
    ELSE LET oe == Head(outs)
         IN IF /\ tx[oe].timestamp >= tx[ie].timestamp
               /\ tx[oe].timestamp - tx[ie].timestamp <= SHELL_WINDOW
            THEN MinOf(tx[ie].amount, tx[oe].amount)
            ELSE ForwardedOf(ie, Tail(outs))

\* passes_temporal, or the total-ratio fallback of dense graphs (median > 8)
PassthroughAccepted(node) ==
    LET ins == InEdgeRows(node)
        outs == OutEdgeRows(node)
        total_in == SumSeq(RowAmounts(ins))
        total_out == SumSeq(RowAmounts(outs))
        passed == SumSeq([k \in DOMAIN ins |-> ForwardedOf(ins[k], outs)])
        passes_temporal == total_in > 0 /\ 100 * passed >= PASSTHROUGH_PCT * total_in
        passes_simple == total_in > 0 /\ 100 * total_out >= SIMPLE_RATIO_PCT * total_in
    IN /\ ins # << >> /\ outs # << >>
       /\ passes_temporal \/ (stats.median2 > 2 * BUSY_MEDIAN_DEGREE /\ passes_simple)

\* Rule 5: `passthrough_ratio > 0.3` rejects, the ratio being
\* abs(total_in - total_out) / (total_in + total_out) over the members' rows
BalancedFlow(member_set) ==
    LET RECURSIVE Totals(_)
        Totals(S) ==
          IF S = {} THEN << 0, 0 >>
          ELSE LET m == CHOOSE m \in S : TRUE
                   rest == Totals(S \ {m})
               IN << rest[1] + SumSeq(RowAmounts(InEdgeRows(m))),
                     rest[2] + SumSeq(RowAmounts(OutEdgeRows(m))) >>
        t == Totals(member_set)
    IN ~(t[1] + t[2] > 0 /\ 100 * AbsDiff(t[1], t[2]) > SHELL_FLOW_PCT * (t[1] + t[2]))

\* shell_candidates: computed from the cells when they are known, else up to
\* MaxShellCandidates of the accounts the structure allows
ShellCandidateOutcomes ==
    IF DataKnown
    THEN {{n \in NodeSet : ShellCandidatePossible(n) /\ PassthroughAccepted(n)}}
    ELSE UpTo({n \in NodeSet : ShellCandidatePossible(n)}, MaxShellCandidates)

\* The member sets that pass rule 5
BalancedOutcomes(keys) ==
    IF DataKnown THEN {{key \in keys : BalancedFlow(key)}} ELSE SUBSET keys

\* The `for neighbor in self.G.successors(current)` loop of one pop; acc is
\* [stack, results, paths_found].
RECURSIVE ChainNeighbours(_, _, _, _, _)
ChainNeighbours(succs, k, path, shell_candidates, acc) ==
    IF k > Len(succs) THEN acc
    ELSE LET neighbor == succs[k]
             new_path == Append(path, neighbor)
             intermediaries ==
               {i \in 2..(Len(new_path) - 1) : new_path[i] \in shell_candidates}
             next ==
               IF neighbor \in Range(path) THEN acc
               ELSE IF neighbor \in shell_candidates
                    THEN [acc EXCEPT !.stack = Append(@, new_path)]
               ELSE IF Cardinality(intermediaries) >= stats.min_intermediaries
                    THEN [acc EXCEPT !.results = Append(@, new_path),
                                     !.paths_found = @ + 1]
               ELSE acc
         IN ChainNeighbours(succs, k + 1, path, shell_candidates, next)

\* _find_shell_chains: the `while stack` loop
RECURSIVE FindShellChains(_, _)
FindShellChains(shell_candidates, acc) ==
    IF acc.stack = << >> \/ acc.paths_found >= MAX_CHAIN_PATHS THEN acc.results
    ELSE LET path == acc.stack[Len(acc.stack)]
             popped == [acc EXCEPT !.stack = SubSeq(@, 1, Len(@) - 1)]
         IN IF Len(path) >= MAX_CHAIN_NODES
            THEN FindShellChains(shell_candidates, popped)
            ELSE FindShellChains(shell_candidates,
                                 ChainNeighbours(SuccessorSeq(path[Len(path)]), 1, path,
                                                 shell_candidates, popped))

\* for node in self.G.nodes(): chains are searched from non-candidates only
RECURSIVE VisitedChains(_, _, _)
VisitedChains(k, shell_candidates, results) ==
    IF k > Len(nodes) THEN results
    ELSE IF nodes[k] \in shell_candidates
         THEN VisitedChains(k + 1, shell_candidates, results)
    ELSE VisitedChains(k + 1, shell_candidates,
                       FindShellChains(shell_candidates,
                                       [stack |-> << << nodes[k] >> >>,
                                        results |-> results, paths_found |-> 0]))

InternalEdges(member_set) ==
    Cardinality({e \in SuccessorPairs(member_set) : e[2] \in member_set})
ExternalEdges(member_set) ==
    Cardinality({e \in SuccessorPairs(member_set) : e[2] \notin member_set})

RECURSIVE SumDegrees(_)
SumDegrees(S) == IF S = {} THEN 0
                 ELSE LET n == CHOOSE n \in S : TRUE
                      IN TotalDegree(n) + SumDegrees(S \ {n})

\* Hardening rules 1-4 (rule 5 compares amounts)
ShellHardened(member_set) ==
    /\ Cardinality(member_set) <= SHELL_MAX_COMPONENT
    /\ SumDegrees(member_set) <= SHELL_MAX_AVG_DEGREE * Cardinality(member_set)
    /\ \A m \in member_set : TotalDegree(m) <= SHELL_MAX_NODE_DEGREE
    /\ ~(InternalEdges(member_set) > 0
         /\ 2 * ExternalEdges(member_set) > InternalEdges(member_set))

\* The non-immune members kept of a chain
ShellRingMembers(chain, immune) == SelectSeq(chain, LAMBDA a : a \notin immune)

\* The candidate ring appended for an accepted chain (lines 643-662)
ShellCandidate(chain, immune) ==
    LET member_set == Range(ShellRingMembers(chain, immune))
        n == Cardinality(member_set)
        internal_edges == InternalEdges(member_set)
        external_edges == ExternalEdges(member_set)
        confidence == 500
            + (IF internal_edges > 0 /\ 5 * external_edges <= internal_edges THEN 100 ELSE 0)
            + (IF n * (n - 1) > 0 /\ 10 * internal_edges >= 3 * n * (n - 1) THEN 100 ELSE 0)
            - 20 * n
    IN [members |-> SortedSeq(member_set),
        pattern_type |-> "shell_network",
        risk_score |-> MinOf(10000, 5500 + Len(chain) * 500),
        confidence_score |-> MaxOf(100, MinOf(1000, confidence)),
        core_account |-> 0]

\* The `for chain in visited_chains` loop; acc is [rings, seen, labelled];
\* balanced holds the member sets whose in/out amounts pass rule 5.
RECURSIVE CollectShells(_, _, _, _, _)
CollectShells(chains, k, immune, balanced, acc) ==
    IF k > Len(chains) \/ Len(acc.rings) >= MAX_SHELL_RINGS THEN acc
    ELSE LET chain == chains[k]
             key == Range(ShellRingMembers(chain, immune))
         IN IF \/ Cardinality(key) < MIN_RING_MEMBERS
               \/ key \in acc.seen
               \/ ~ShellHardened(key)
               \/ key \notin balanced
            THEN CollectShells(chains, k + 1, immune, balanced, acc)
            ELSE CollectShells(chains, k + 1, immune, balanced,
                               [rings |-> Append(acc.rings, ShellCandidate(chain, immune)),
                                seen |-> acc.seen \cup {key},
                                labelled |-> acc.labelled \cup Range(chain)])

DetectShells ==
    /\ pc = "shells"
    /\ \E shell_candidates \in ShellCandidateOutcomes :
         LET chains == IF shell_candidates = {} THEN << >>
                       ELSE VisitedChains(1, shell_candidates, << >>)
             keys == {Range(ShellRingMembers(chains[i], immune_accounts)) : i \in DOMAIN chains}
         IN \E balanced \in BalancedOutcomes(keys) :
              LET out == CollectShells(chains, 1, immune_accounts, balanced,
                                       [rings |-> << >>, seen |-> {}, labelled |-> {}])
              IN /\ candidate_rings' = candidate_rings \o out.rings
                 /\ account_patterns' = AddLabel(account_patterns, out.labelled, "shell_account")
    /\ pc' = NextStage("shells")
    /\ UNCHANGED << load_vars, dfs_vars, immune_accounts, velocity_accounts, velocity_24h_accounts,
                    high_degree_hubs, found_cycles, smurf_candidates, fraud_rings,
                    rerun_rings, preliminary_scores, suspicion_scores, suspicious_accounts >>

\* ------------------------------------------ stage 1c: velocity signals
\* What the counts allow for each signal; the rest reads timestamps and amounts.
\* Tier 1 needs an inbound and an outbound event, tier 2 five events, the
\* variance test two amounts, the commercial-hub filter a degree above 50.
SignalPossible(label, n) ==
    CASE label = "high_velocity" -> InDegree(n) > 0 /\ OutDegree(n) > 0
      [] label = "high_velocity_24h" -> TotalDegree(n) >= TIER2_MIN_EVENTS
      [] label = "low_variance" -> TotalDegree(n) >= LOW_VARIANCE_MIN_AMOUNTS
      [] label = "hub" -> TotalDegree(n) > HUB_MIN_DEGREE

SignalFacts ==
    {f \in {"high_velocity", "high_velocity_24h", "low_variance", "hub"} \X (NodeSet \cap Focus) :
        SignalPossible(f[1], f[2])}

Signalled(facts, label) == {f[2] : f \in {g \in facts : g[1] = label}}

\* ---- the signals on rows whose amounts and timestamps are known
\* Faulty variant: the re-transmission has to come in less than an hour
Tier1_Strict(acc) ==
    \E i \in ReceivedRows(acc) :
       LET later == {tx[j].timestamp : j \in {k \in SentRows(acc) :
                                                tx[k].timestamp > tx[i].timestamp}}
       IN later # {} /\ Min(later) - tx[i].timestamp < HOUR

\* Tier 1.  The account's events are sorted by timestamp, outbound events
\* before inbound ones of the same timestamp (concat order, stable sort); an
\* inbound event is compared with the next outbound event after it.
Tier1(acc) ==
    \E i \in ReceivedRows(acc) :
       LET later == {tx[j].timestamp : j \in {k \in SentRows(acc) :
                                                tx[k].timestamp > tx[i].timestamp}}
       IN later # {} /\ Min(later) - tx[i].timestamp <= HOUR

\* Tier 2: five or more of the account's events from some event on, no later
\* than 24 hours after it (np.searchsorted(..., side='right') - i)
Tier2(acc) ==
    LET events == SentRows(acc) \cup ReceivedRows(acc)
    IN /\ Cardinality(events) >= TIER2_MIN_EVENTS
       /\ \E i \in events :
             Cardinality({j \in events : /\ tx[j].timestamp >= tx[i].timestamp
                                         /\ tx[j].timestamp <= tx[i].timestamp + DAY})
               >= TIER2_MIN_EVENTS

\* account_amounts[acc]: the amounts of the account's rows, in table order
AccountAmounts(acc) ==
    RowAmounts(OrderedBy({i * 100 + i : i \in SentRows(acc) \cup ReceivedRows(acc)}))

\* n * sum(x^2) - sum(x)^2, as the sum of the squared differences of the
\* pairs of values
Spread(amounts) ==
    SumSeq([i \in DOMAIN amounts |->
              SumSeq([j \in DOMAIN amounts |->
                        (amounts[i] - amounts[j]) * (amounts[i] - amounts[j])])]) \div 2

\* _coefficient_of_variation(values) < pct / 100.  The coefficient is
\* sqrt(population variance) / mean, 0.0 for fewer than two values or mean 0;
\* for positive amounts and c = 1 / k (k = 100 / pct, a whole number for 0.2
\* and 0.5):  cv < c  <=>  k^2 * Spread < total^2  <=>  floor(k^2 * Spread / total) < total
CvBelow(amounts, pct) ==
    LET total == SumSeq(amounts)
        k == 100 \div pct
    IN \/ Len(amounts) < 2
       \/ total = 0
       \/ (k * k * Spread(amounts)) \div total < total

LowVariance(acc) ==
    LET amounts == AccountAmounts(acc)
    IN Len(amounts) >= LOW_VARIANCE_MIN_AMOUNTS /\ CvBelow(amounts, LOW_VARIANCE_PCT)

\* The commercial-hub filter
CommercialHub(acc) ==
    LET times == {tx[i].timestamp : i \in SentRows(acc) \cup ReceivedRows(acc)}
        gaps == {t - Max({u \in times : u < t}) : t \in {v \in times : v # Min(times)}}
        amounts == AccountAmounts(acc)
    IN /\ stats.time_span > 0
       /\ TotalDegree(acc) > HUB_MIN_DEGREE
       /\ ~(100 * (Max(times) - Min(times)) < HUB_ACTIVITY_PCT * stats.time_span)
       /\ Len(amounts) >= 2
       /\ ~CvBelow(amounts, HUB_CV_PCT)
       /\ ~(gaps # {} /\ 100 * Max(gaps) > HUB_GAP_PCT * stats.time_span)

SignalComputed(label, acc) ==
    CASE label = "high_velocity" -> Tier1(acc)
      [] label = "high_velocity_24h" -> Tier2(acc)
      [] label = "low_variance" -> LowVariance(acc)
      [] label = "hub" -> CommercialHub(acc)

\* The signals raised: computed from the cells when they are known, else any
\* possible ones on up to MaxSignalAccounts focus accounts
SignalOutcomes ==
    IF DataKnown
    THEN {{f \in {"high_velocity", "high_velocity_24h", "low_variance", "hub"} \X NodeSet :
             SignalComputed(f[1], f[2])}}
    ELSE UNION {SUBSET {f \in SignalFacts : f[2] \in accs} :
                  accs \in UpTo(NodeSet \cap Focus, MaxSignalAccounts)}

DetectVelocity ==
    /\ pc = "velocity"
    /\ \E facts \in SignalOutcomes :
         /\ velocity_accounts' = Signalled(facts, "high_velocity")
         /\ velocity_24h_accounts' = Signalled(facts, "high_velocity_24h")
         /\ high_degree_hubs' = Signalled(facts, "hub")
         /\ account_patterns' =
              AddLabel(AddLabel(AddLabel(account_patterns,
                                         Signalled(facts, "high_velocity"), "high_velocity"),
                                Signalled(facts, "high_velocity_24h"), "high_velocity_24h"),
                       Signalled(facts, "low_variance"), "low_variance")
    /\ pc' = NextStage("velocity")
    /\ UNCHANGED << load_vars, dfs_vars, immune_accounts, found_cycles, smurf_candidates,
                    candidate_rings, fraud_rings, rerun_rings, preliminary_scores,
                    suspicion_scores, suspicious_accounts >>

\* ------------------------------------------------- stage 1d: smurfing
\* A node yields a candidate when some 72h window holds >= 5 unique senders.
\* The windows explored hold all of the node's transactions.
SmurfWindowPossible(n) ==
    /\ InDegree(n) >= UNIQUE_IN_THRESHOLD
    /\ Cardinality(Predecessors(n)) >= UNIQUE_IN_THRESHOLD

\* Faulty variant: the window loop without its break, a second candidate from
\* the window that starts one sender later
RECURSIVE ExtractCandidates_NoBreak(_, _)
ExtractCandidates_NoBreak(k, windowed) ==
    IF k > Len(nodes) THEN << >>
    ELSE LET node == nodes[k]
             rest == ExtractCandidates_NoBreak(k + 1, windowed)
         IN IF node \in windowed
            THEN << [hub |-> node,
                     in_txns |-> Predecessors(node),
                     out_txns |-> Successors(node)],
                    [hub |-> node,
                     in_txns |-> Predecessors(node) \ {Min(Predecessors(node))},
                     out_txns |-> Successors(node)] >> \o rest
            ELSE rest

RECURSIVE ExtractCandidates(_, _)
ExtractCandidates(k, windowed) ==
    IF k > Len(nodes) THEN << >>
    ELSE LET node == nodes[k]
             rest == ExtractCandidates(k + 1, windowed)
         IN IF node \in windowed
            THEN << [hub |-> node,
                     in_txns |-> Predecessors(node),
                     out_txns |-> Successors(node)] >> \o rest
            ELSE rest

\* ---- the sliding window on rows whose timestamps are known
\* in_txns.sort(key=ts): the rows into node by timestamp, ties in in_edges order
InTxns(node) ==
    LET rows == InEdgeRows(node)
    IN Values(StableSortPairs([k \in DOMAIN rows |-> << tx[rows[k]].timestamp, rows[k] >>]))

\* in_txns[left:right]: from position left on, no later than 72 hours after it
WindowInTxns(in_txns, left) ==
    {in_txns[k] : k \in {j \in left..Len(in_txns) :
                           tx[in_txns[j]].timestamp
                             <= tx[in_txns[left]].timestamp + SMURF_WINDOW}}

\* The positions whose window holds enough unique senders
QualifyingLefts(in_txns) ==
    {left \in DOMAIN in_txns :
       Cardinality({df[i][1] : i \in WindowInTxns(in_txns, left)}) >= UNIQUE_IN_THRESHOLD}

\* The candidate of the first qualifying window of a node
WindowCandidate(node) ==
    LET in_txns == InTxns(node)
        left == Min(QualifyingLefts(in_txns))
        w_start == tx[in_txns[left]].timestamp
    IN [hub |-> node,
        in_txns |-> {df[i][1] : i \in WindowInTxns(in_txns, left)},
        out_txns |-> {df[i][2] : i \in {j \in SentRows(node) :
                                          /\ w_start <= tx[j].timestamp
                                          /\ tx[j].timestamp
                                               <= w_start + SMURF_WINDOW + SMURF_OUT_BUFFER}}]

RECURSIVE WindowCandidates(_)
WindowCandidates(k) ==
    IF k > Len(nodes) THEN << >>
    ELSE IF InDegree(nodes[k]) >= UNIQUE_IN_THRESHOLD
            /\ QualifyingLefts(InTxns(nodes[k])) # {}
         THEN << WindowCandidate(nodes[k]) >> \o WindowCandidates(k + 1)
         ELSE WindowCandidates(k + 1)

\* The candidates appended: computed from the cells when they are known, else
\* of any of the nodes with enough senders
ExtractionOutcomes ==
    IF DataKnown THEN {WindowCandidates(1)}
    ELSE {ExtractCandidates(1, windowed) :
            windowed \in SUBSET {n \in NodeSet : SmurfWindowPossible(n)}}

ExtractSmurfCandidates ==
    /\ pc = "smurf_extract"
    /\ \E extracted \in ExtractionOutcomes :
         smurf_candidates' = smurf_candidates \o extracted
    /\ pc' = NextStage("smurf_extract")
    /\ UNCHANGED << load_vars, dfs_vars, immune_accounts, account_patterns, velocity_accounts,
                    velocity_24h_accounts, high_degree_hubs, found_cycles, candidate_rings,
                    fraud_rings, rerun_rings, preliminary_scores, suspicion_scores,
                    suspicious_accounts >>

\* Factor 2: outbound concentration, in tenths
ConcScore(unique_out) == IF unique_out <= 3 THEN 10 ELSE IF unique_out <= 5 THEN 5 ELSE 0

\* Factor 5: ring size, in tenths
SizeScore(ring_size) ==
    IF ring_size >= 5 THEN 10 ELSE IF ring_size >= 4 THEN 8
    ELSE IF ring_size >= 3 THEN 4 ELSE 0

\* Faulty variant: the member set without the size cap
SmurfMembers_NoCap(cand, immune) ==
    (IF cand.hub \in immune THEN {} ELSE {cand.hub})
        \cup (cand.in_txns \ immune) \cup (cand.out_txns \ immune)

\* all_members_set with the MAX_SMURF_RING_SIZE cap (lines 1029-1050)
SmurfMembers(cand, immune) ==
    LET inbound_accounts == cand.in_txns \ immune
        outbound_accounts == cand.out_txns \ immune
        hub_set == IF cand.hub \in immune THEN {} ELSE {cand.hub}
        all_members_set == hub_set \cup inbound_accounts \cup outbound_accounts
        keep_in == hub_set \cup
                   Range(Prefix(SortedSeq(inbound_accounts),
                                MAX_SMURF_RING_SIZE - Cardinality(hub_set)))
        keep == keep_in \cup
                Range(Prefix(SortedSeq(outbound_accounts),
                             MAX_SMURF_RING_SIZE - Cardinality(keep_in)))
    IN IF Cardinality(all_members_set) > MAX_SMURF_RING_SIZE THEN keep ELSE all_members_set

\* Whether a scored candidate becomes a ring: combined score and minimum size
SmurfRingAccepted(combined_score, ring_size) ==
    combined_score >= SMURF_MIN_COMBINED /\ ring_size >= SMURF_MIN_RING_SIZE

\* The candidate ring of an accepted smurf candidate (lines 1078-1109);
\* combined_score is in tenths.
SmurfCandidateRing(cand, members, combined_score) ==
    LET ring_size == Cardinality(members)
        int_count == InternalEdges(members)
        ext_count == ExternalEdges(members)
        confidence == 700 + (combined_score - 40) * 4
                          + (IF int_count > 0 /\ ext_count <= int_count THEN 50 ELSE 0)
                          - (IF ring_size > 15 THEN 100 ELSE 0)
                          - ring_size * 5
    IN [members |-> SortedSeq(members),
        pattern_type |-> "smurfing",
        risk_score |-> MinOf(10000, 4000 + combined_score * 80 + ring_size * 200),
        confidence_score |-> MaxOf(100, MinOf(1000, confidence)),
        core_account |-> cand.hub]

\* The `for cand in self._smurf_candidates` loop; acc is [rings, seen, patterns];
\* factors[k] = <<flow_score, hold_score, cv_score>> of candidate k, in tenths.
RECURSIVE ScoreCandidates(_, _, _, _)
ScoreCandidates(k, factors, immune, acc) ==
    IF k > Len(smurf_candidates) THEN acc
    ELSE LET cand == smurf_candidates[k]
             flow_score == IF cand.out_txns = {} THEN 0 ELSE factors[k][1]
             hold_score == IF cand.out_txns = {} THEN 3 ELSE factors[k][2]
             cv_score == factors[k][3]
             members == SmurfMembers(cand, immune)
             ring_size == Cardinality(members)
             combined_score == flow_score + ConcScore(Cardinality(cand.out_txns))
                               + hold_score + cv_score + SizeScore(ring_size)
             inbound_accounts == cand.in_txns \ immune
             labelled ==
               [a \in Accounts |->
                  acc.patterns[a] \cup
                  (IF a \notin members THEN {}
                   ELSE IF a = cand.hub THEN {"smurfing", "fan_in"}
                   ELSE IF a \in inbound_accounts THEN {"fan_in"}
                   ELSE {"fan_out"})]
         IN IF \/ cand.in_txns = {}
               \/ ~SmurfRingAccepted(combined_score, ring_size)
               \/ members \in acc.seen
            THEN ScoreCandidates(k + 1, factors, immune, acc)
            ELSE ScoreCandidates(k + 1, factors, immune,
                   [rings |-> Append(acc.rings,
                                     SmurfCandidateRing(cand, members, combined_score)),
                    seen |-> acc.seen \cup {members},
                    patterns |-> labelled])

ScoreSmurfCandidates ==
    /\ pc = "smurf_score"
    /\ \E factors \in [DOMAIN smurf_candidates ->
                         FactorScores \X FactorScores \X FactorScores] :
         LET out == ScoreCandidates(1, factors, immune_accounts,
                                    [rings |-> << >>, seen |-> {},
                                     patterns |-> account_patterns])
         IN /\ candidate_rings' = candidate_rings \o out.rings
            /\ account_patterns' = out.patterns
    /\ pc' = NextStage("smurf_score")
    /\ UNCHANGED << load_vars, dfs_vars, immune_accounts, velocity_accounts, velocity_24h_accounts,
                    high_degree_hubs, found_cycles, smurf_candidates, fraud_rings,
                    rerun_rings, preliminary_scores, suspicion_scores, suspicious_accounts >>

\* ----------------------------------------------- stage 1e: structuring
\* Two qualifying 48h windows of >= 5 band transactions each, whose starts
\* are >= 48h apart: the windows are closed, so a transaction exactly 48h
\* after the first start counts in both, and nine transactions of the
\* account can do.  The bands and the windows read the rows' data.
StructuringPossible(n) ==
    TotalDegree(n) >= STRUCTURING_MIN_WINDOWS * STRUCTURING_MIN_HITS - 1

\* ---- the bands and windows on rows whose cells are known
\* band_txns: the timestamps, in order, of the account's rows whose amount
\* lies in a band
BandTxns(acc) ==
    LET rows == {i \in SentRows(acc) \cup ReceivedRows(acc) :
                   \E band \in BANDS : band[1] <= tx[i].amount /\ tx[i].amount <= band[2]}
    IN [k \in 1..Cardinality(rows) |->
          tx[OrderedBy({i * 100 + i : i \in rows})[k]].timestamp]

\* The `for left in range(n)` loop: the number of qualifying windows, last
\* being the start of the latest one
RECURSIVE QualifyingWindows(_, _, _, _)
QualifyingWindows(band_txns, left, last, count) ==
    IF left > Len(band_txns) THEN count
    ELSE LET w_start == band_txns[left]
             window_count ==
               Cardinality({k \in left..Len(band_txns) :
                              band_txns[k] <= w_start + STRUCTURING_WINDOW})
         IN IF /\ window_count >= STRUCTURING_MIN_HITS
               /\ (count = 0 \/ w_start - last >= STRUCTURING_WINDOW)
            THEN QualifyingWindows(band_txns, left + 1, w_start, count + 1)
            ELSE QualifyingWindows(band_txns, left + 1, last, count)

Structured(acc) ==
    /\ Len(BandTxns(acc)) >= STRUCTURING_MIN_HITS
    /\ QualifyingWindows(BandTxns(acc), 1, 0, 0) >= STRUCTURING_MIN_WINDOWS

\* The accounts labelled: computed from the cells when they are known, else
\* up to MaxSignalAccounts of those with enough transactions
StructuringOutcomes ==
    IF DataKnown THEN {{n \in NodeSet : Structured(n)}}
    ELSE UpTo({n \in NodeSet : StructuringPossible(n)}, MaxSignalAccounts)

DetectStructuring ==
    /\ pc = "structuring"
    /\ \E structured \in StructuringOutcomes :
         account_patterns' = AddLabel(account_patterns, structured, "structuring")
    /\ pc' = NextStage("structuring")
    /\ UNCHANGED << load_vars, dfs_vars, immune_accounts, velocity_accounts, velocity_24h_accounts,
                    high_degree_hubs, found_cycles, smurf_candidates, candidate_rings,
                    fraud_rings, rerun_rings, preliminary_scores, suspicion_scores,
                    suspicious_accounts >>

\* ------------------------------------- stage 1.5: immune account cleanup
\* Faulty variant: a cleanup that leaves the labels of immune accounts alone.
CleanedPatterns_Keep(patterns, a, immune) == patterns[a]

\* self.account_patterns[acc] & immune_keep for an immune account
CleanedPatterns(patterns, a, immune) ==
    IF a \in immune THEN patterns[a] \cap {"payroll", "merchant"} ELSE patterns[a]

RECURSIVE CleanedCandidates(_, _)
CleanedCandidates(cands, immune) ==
    IF cands = << >> THEN << >>
    ELSE LET cand == Head(cands)
             clean_members == SelectSeq(cand.members, LAMBDA m : m \notin immune)
             rest == CleanedCandidates(Tail(cands), immune)
         IN IF Len(clean_members) >= MIN_RING_MEMBERS
            THEN << [cand EXCEPT !.members = SortedSeq(Range(clean_members))] >> \o rest
            ELSE rest

ImmuneCleanup ==
    /\ pc = "cleanup"
    /\ account_patterns' =
         [a \in Accounts |-> CleanedPatterns(account_patterns, a, immune_accounts)]
    /\ candidate_rings' = CleanedCandidates(candidate_rings, immune_accounts)
    /\ pc' = NextStage("cleanup")
    /\ UNCHANGED << load_vars, dfs_vars, immune_accounts, velocity_accounts, velocity_24h_accounts,
                    high_degree_hubs, found_cycles, smurf_candidates, fraud_rings,
                    rerun_rings, preliminary_scores, suspicion_scores, suspicious_accounts >>

\* ------------------------------------------- stage 2: ring consolidation
\* _jaccard_similarity(a, b) > 0.6
JaccardExceeds(a, b) ==
    IF a = {} /\ b = {} THEN TRUE
    ELSE 100 * Cardinality(a \cap b) > MERGE_OVERLAP_PCT * Cardinality(a \cup b)

\* The indices union() joins with i inside one core group
RECURSIVE LinkedIndices(_, _)
LinkedIndices(group, S) ==
    LET T == S \cup {j \in DOMAIN group :
                       \E k \in S : JaccardExceeds(Range(group[k].members),
                                                   Range(group[j].members))}
    IN IF T = S THEN S ELSE LinkedIndices(group, T)

\* The ring emitted for one merged group of a core
MergedSmurfRing(group, indices, core) ==
    [members |-> SortedSeq(UNION {Range(group[i].members) : i \in indices}),
     pattern_type |-> "smurfing",
     risk_score |-> Max({group[i].risk_score : i \in indices}),
     confidence_score |-> Max({group[i].confidence_score : i \in indices}),
     core_account |-> core]

\* The rings of one core group: the ring itself when alone, else one per merged group
CoreGroupRings(group, core) ==
    IF Len(group) = 1 THEN group
    ELSE LET firsts == SortedSeq({i \in DOMAIN group : i = Min(LinkedIndices(group, {i}))})
         IN [k \in DOMAIN firsts |->
               MergedSmurfRing(group, LinkedIndices(group, {firsts[k]}), core)]

RECURSIVE ConsolidatedSmurfs(_, _, _)
ConsolidatedSmurfs(smurf, k, done) ==
    IF k > Len(smurf) THEN << >>
    ELSE LET core == smurf[k].core_account
         IN IF core \in done THEN ConsolidatedSmurfs(smurf, k + 1, done)
            ELSE CoreGroupRings(SelectSeq(smurf, LAMBDA c : c.core_account = core), core)
                 \o ConsolidatedSmurfs(smurf, k + 1, done \cup {core})

SmurfConsolidation(candidates) ==
    LET non_smurf == SelectSeq(candidates, LAMBDA c : c.pattern_type # "smurfing")
        smurf == SelectSeq(candidates, LAMBDA c : c.pattern_type = "smurfing")
    IN IF smurf = << >> THEN candidates
       ELSE non_smurf \o ConsolidatedSmurfs(smurf, 1, {})

\* _consolidate_rings; rerun_rings is what a second run on the same input keeps.
ConsolidateRings ==
    /\ pc = "consolidate"
    /\ IF candidate_rings = << >>
       THEN UNCHANGED << candidate_rings, fraud_rings, rerun_rings >>
       ELSE /\ candidate_rings' = SmurfConsolidation(candidate_rings)
            /\ fraud_rings' \in ArbitrateRings(SmurfConsolidation(candidate_rings))
            /\ rerun_rings' \in ArbitrateRings(SmurfConsolidation(candidate_rings))
    /\ pc' = NextStage("consolidate")
    /\ UNCHANGED << load_vars, dfs_vars, immune_accounts, account_patterns, velocity_accounts,
                    velocity_24h_accounts, high_degree_hubs, found_cycles, smurf_candidates,
                    preliminary_scores, suspicion_scores, suspicious_accounts >>

\* ---------------------------------------------- stage 3: pattern hierarchy
\* Faulty variant: the fan labels in a group of their own, above smurfing.
HIERARCHY_FanFirst ==
    << CycleLabels, {"shell_account"}, {"fan_in", "fan_out"}, {"smurfing"},
       {"structuring"}, {"high_velocity", "high_velocity_24h"}, {"low_variance"} >>

HIERARCHY == << CycleLabels, {"shell_account"}, {"smurfing", "fan_in", "fan_out"},
                {"structuring"}, {"high_velocity", "high_velocity_24h"}, {"low_variance"} >>
KEEP_ALWAYS == {"isolation_cluster", "payroll", "merchant"}

\* Faulty variant: the loop over the groups without its break
KeptPatterns_NoBreak(patterns) ==
    (patterns \cap KEEP_ALWAYS)
       \cup UNION {patterns \cap HIERARCHY[i] : i \in DOMAIN HIERARCHY}

\* kept: the always-kept labels plus those of the first group the account matches
KeptPatterns(patterns) ==
    LET matching == {i \in DOMAIN HIERARCHY : patterns \cap HIERARCHY[i] # {}}
    IN (patterns \cap KEEP_ALWAYS)
       \cup (IF matching = {} THEN {} ELSE patterns \cap HIERARCHY[Min(matching)])

ApplyPatternHierarchy ==
    /\ pc = "hierarchy"
    /\ account_patterns' = [a \in Accounts |-> KeptPatterns(account_patterns[a])]
    /\ pc' = NextStage("hierarchy")
    /\ UNCHANGED << load_vars, dfs_vars, immune_accounts, velocity_accounts, velocity_24h_accounts,
                    high_degree_hubs, found_cycles, smurf_candidates, candidate_rings,
                    fraud_rings, rerun_rings, preliminary_scores, suspicion_scores,
                    suspicious_accounts >>

\* ------------------------------------- stage 4: scoring and suppression
\* pattern_weights, in hundredths of a point
PatternWeight(p) ==
    CASE p = "cycle_length_3" -> 3000
      [] p = "cycle_length_4" -> 2500
      [] p = "cycle_length_5" -> 2000
      [] p = "shell_account" -> 2000
      [] p \in {"smurfing", "fan_in", "fan_out"} -> 1500
      [] p = "structuring" -> 1200
      [] p = "high_velocity" -> 500
      [] p \in {"high_velocity_24h", "low_variance"} -> 1000
      [] OTHER -> 0

STRUCTURAL_PATTERNS ==
    CycleLabels \cup {"shell_account", "smurfing", "fan_in", "fan_out", "structuring",
                      "low_variance"}
STRONG_FRAUD_PATTERNS == CycleLabels \cup {"shell_account", "smurfing"}

RECURSIVE SumWeights(_)
SumWeights(P) == IF P = {} THEN 0
                 ELSE LET p == CHOOSE p \in P : TRUE
                      IN PatternWeight(p) + SumWeights(P \ {p})

\* anomaly_bonus = normalized * 15: all zero when the forest scores every node
\* alike, else the most anomalous node gets 15, the most normal one 0 and the
\* rest a level in between.
AnomalyProfiles ==
    {[n \in NodeSet |-> 0]}
    \cup {[n \in NodeSet |->
             IF n = hot THEN ANOMALY_MAX
             ELSE IF n = (IF nodes[Len(nodes)] = hot THEN nodes[1] ELSE nodes[Len(nodes)])
                  THEN 0
             ELSE AnomalyLevel] : hot \in NodeSet \cap Focus}

\* One row of the feature table: in_degree, out_degree, volume in, volume out
FeatureRow(n) ==
    << InDegree(n), OutDegree(n), SumAmounts(ReceivedRows(n)), SumAmounts(SentRows(n)) >>

\* Nodes with the same features get the same raw score: when all rows are
\* alike max_s - min_s is 0 and the bonus is np.zeros
AnomalyOutcomes ==
    IF DataKnown /\ Cardinality({FeatureRow(n) : n \in NodeSet}) <= 1
    THEN {[n \in NodeSet |-> 0]}
    ELSE AnomalyProfiles

\* Faulty variant: the velocity bonus given without a structural pattern
PreliminaryScore_AnyVelocity(node, patterns, anomaly_bonus) ==
    LET base == MinOf(SumWeights(patterns), BASE_SCORE_CAP)
        velocity_bonus ==
          IF node \in velocity_accounts THEN 1000
          ELSE IF node \in velocity_24h_accounts THEN 500
          ELSE 0
    IN base + velocity_bonus + anomaly_bonus[node]

\* Faulty variant: the velocity bonus read from the labels the hierarchy left
PreliminaryScore_LabelVelocity(node, patterns, anomaly_bonus) ==
    LET base == MinOf(SumWeights(patterns), BASE_SCORE_CAP)
        has_structural == patterns \cap STRUCTURAL_PATTERNS # {}
        velocity_bonus ==
          IF "high_velocity" \in patterns /\ has_structural THEN 1000
          ELSE IF "high_velocity_24h" \in patterns /\ has_structural THEN 500
          ELSE 0
    IN base + velocity_bonus + anomaly_bonus[node]

\* The first scoring loop, for one node
PreliminaryScore(node, patterns, anomaly_bonus) ==
    LET base == MinOf(SumWeights(patterns), BASE_SCORE_CAP)
        has_structural == patterns \cap STRUCTURAL_PATTERNS # {}
        velocity_bonus ==
          IF node \in velocity_accounts /\ has_structural THEN 1000
          ELSE IF node \in velocity_24h_accounts /\ has_structural THEN 500
          ELSE 0
    IN base + velocity_bonus + anomaly_bonus[node]

\* preliminary_scores after the first loop, entry by entry
RECURSIVE PreliminaryScores(_, _)
PreliminaryScores(S, anomaly_bonus) ==
    IF S = {} THEN << >>
    ELSE LET n == CHOOSE n \in S : TRUE
         IN (n :> PreliminaryScore(n, account_patterns[n], anomaly_bonus))
            @@ PreliminaryScores(S \ {n}, anomaly_bonus)

\* The second pass, in node order, updating preliminary_scores and
\* account_patterns in place; acc is [scores, patterns].
RECURSIVE IsolationPass(_, _)
IsolationPass(k, acc) ==
    IF k > Len(nodes) THEN acc
    ELSE LET node == nodes[k]
             flagged_neighbors ==
               Cardinality({n \in Neighbours(node) : acc.scores[n] > ISOLATION_NEIGHBOUR_SCORE})
         IN IF acc.scores[node] > 0 /\ flagged_neighbors >= 2
            THEN IsolationPass(k + 1,
                   [scores |-> [acc.scores EXCEPT ![node] = @ + ISOLATION_BONUS],
                    patterns |-> [acc.patterns EXCEPT ![node] = @ \cup {"isolation_cluster"}]])
            ELSE IsolationPass(k + 1, acc)

\* round(x, 1) on hundredths; the scores explored never end in a 5
Round1(x) == ((x + 5) \div 10) * 10

\* Faulty variant: the velocity-only rule never applies.
VelocityOnly_Never(patterns) == FALSE

\* The velocity-only rule of the suppression loop
VelocityOnly(patterns) ==
    (patterns \ {"isolation_cluster", "payroll", "merchant"})
        \subseteq {"high_velocity", "high_velocity_24h", "low_variance"}

ImmunitySuppressed(node, patterns) ==
    node \in immune_accounts /\ patterns \cap STRONG_FRAUD_PATTERNS = {}

\* Faulty variant: hub suppression that ignores strong fraud labels.
HubSuppressed_Always(node, patterns) == node \in high_degree_hubs

HubSuppressed(node, patterns) ==
    node \in high_degree_hubs /\ patterns \cap STRONG_FRAUD_PATTERNS = {}

\* Faulty variant: clamp and round, without the flag threshold.
Thresholded_NoGate(score) == Round1(MaxOf(0, MinOf(10000, score)))

\* Clamp, round, then the global flag threshold
Thresholded(score) ==
    LET rounded == Round1(MaxOf(0, MinOf(10000, score)))
    IN IF rounded < FLAG_THRESHOLD THEN 0 ELSE rounded

\* The suppression loop, for one node
FinalScore(node, score, patterns) ==
    IF VelocityOnly(patterns) \/ ImmunitySuppressed(node, patterns)
       \/ HubSuppressed(node, patterns)
    THEN Thresholded(0)
    ELSE Thresholded(score)

CalculateSuspicionScores ==
    /\ pc = "scoring"
    /\ \E anomaly_bonus \in AnomalyOutcomes :
         LET first == PreliminaryScores(NodeSet, anomaly_bonus)
             second == IsolationPass(1, [scores |-> first, patterns |-> account_patterns])
         IN /\ preliminary_scores' = second.scores
            /\ account_patterns' = second.patterns
    /\ suspicion_scores' =
         [n \in NodeSet |-> FinalScore(n, preliminary_scores'[n], account_patterns'[n])]
    /\ pc' = NextStage("scoring")
    /\ UNCHANGED << load_vars, dfs_vars, immune_accounts, velocity_accounts, velocity_24h_accounts,
                    high_degree_hubs, found_cycles, smurf_candidates, candidate_rings,
                    fraud_rings, rerun_rings, suspicious_accounts >>

\* --------------------------------------------------- output document
\* The labels in the order Python compares the strings
LabelOrder ==
    << "cycle_length_3", "cycle_length_4", "cycle_length_5", "fan_in", "fan_out",
       "high_velocity", "high_velocity_24h", "isolation_cluster", "low_variance",
       "merchant", "payroll", "shell_account", "smurfing", "structuring" >>
LabelRank(l) == CHOOSE i \in DOMAIN LabelOrder : LabelOrder[i] = l

\* sorted(self.account_patterns.get(acc, set()))
SortedPatterns(P) ==
    LET ranks == SortedSeq({LabelRank(l) : l \in P})
    IN [i \in DOMAIN ranks |-> LabelOrder[ranks[i]]]

NONE == << "N", "O", "N", "E" >>

\* account_rings[acc][0] if account_rings[acc] else "NONE"
FirstRingId(rings, acc) ==
    LET holding == {i \in DOMAIN rings : acc \in Range(rings[i].member_accounts)}
    IN IF holding = {} THEN NONE ELSE rings[Min(holding)].ring_id

\* The sort key (-suspicion_score, account_id) as one number
AccountSortKey(e) == (10000 - e.suspicion_score) * 100 + e.account_id

\* The entries appended in suspicion_scores order, before the sort
RECURSIVE EmittedAccounts(_)
EmittedAccounts(k) ==
    IF k > Len(nodes) THEN << >>
    ELSE LET acc == nodes[k]
             rest == EmittedAccounts(k + 1)
         IN IF suspicion_scores[acc] <= 0 THEN rest
            ELSE << [account_id |-> acc,
                     suspicion_score |-> suspicion_scores[acc],
                     detected_patterns |-> SortedPatterns(account_patterns[acc]),
                     ring_id |-> FirstRingId(fraud_rings, acc)] >> \o rest

SortAccounts(entries) ==
    Values(StableSortPairs([i \in DOMAIN entries |-> << AccountSortKey(entries[i]), entries[i] >>]))

GenerateJson ==
    /\ pc = "json"
    /\ suspicious_accounts' = SortAccounts(EmittedAccounts(1))
    /\ pc' = NextStage("json")
    /\ UNCHANGED << load_vars, dfs_vars, immune_accounts, account_patterns, velocity_accounts,
                    velocity_24h_accounts, high_degree_hubs, found_cycles, smurf_candidates,
                    candidate_rings, fraud_rings, rerun_rings, preliminary_scores,
                    suspicion_scores >>

\* run_all after load_data: one stage after the other
Next ==
    \/ LoadData
    \/ DetectBusinessImmunity
    \/ DetectCycles
    \/ DetectShells
    \/ DetectVelocity
    \/ ExtractSmurfCandidates
    \/ ScoreSmurfCandidates
    \/ DetectStructuring
    \/ ImmuneCleanup
    \/ ConsolidateRings
    \/ ApplyPatternHierarchy
    \/ CalculateSuspicionScores
    \/ GenerateJson

Spec == Init /\ [][Next]_vars

\* ------------------------------ detect_cycles' search, one pop per step
\* Tables in which each of n accounts pays every other one once, the same
\* amount, a minute apart
CliqueRows(n) ==
    [i \in 1..(n * (n - 1)) |->
       LET u == ((i - 1) \div (n - 1)) + 1
           j == ((i - 1) % (n - 1)) + 1
       IN << u, IF j < u THEN j ELSE j + 1 >>]

CliqueTables ==
    { [columns |-> REQUIRED_COLUMNS, rows |-> CliqueRows(n),
       cells |-> [i \in 1..(n * (n - 1)) |-> Cell(BaseAmount, i)]] :
        n \in {3, CliqueSize} }

LoadClique ==
    /\ pc = "load"
    /\ \E table \in CliqueTables :
         LET result == LoadResult(table)
         IN /\ raised' = result.raised
            /\ loaded' = result.loaded
            /\ df' = result.df
            /\ tx' = result.tx
            /\ G' = result.G
            /\ nodes' = result.nodes
            /\ stats' = result.stats
            /\ pc' = IF result.raised = "ValueError" THEN "rejected" ELSE "immunity"
    /\ UNCHANGED << dfs_vars, immune_accounts, account_patterns, velocity_accounts,
                    velocity_24h_accounts, high_degree_hubs, found_cycles,
                    smurf_candidates, candidate_rings, fraud_rings, rerun_rings,
                    preliminary_scores, suspicion_scores, suspicious_accounts >>

search_unchanged ==
    << load_vars, uf_merge, arb, walk, picked, immune_accounts, account_patterns, velocity_accounts,
       velocity_24h_accounts, high_degree_hubs, smurf_candidates, candidate_rings,
       fraud_rings, rerun_rings, preliminary_scores, suspicion_scores,
       suspicious_accounts >>

\* found_cycles = [], seen_canonical = set(), before the first start node
EnterSearch ==
    /\ pc = "cycles"
    /\ found_cycles' = << >>
    /\ dfs_seen' = {}
    /\ dfs_start' = 1
    /\ pc' = "for_start"
    /\ UNCHANGED << dfs_stack, dfs_ops, search_unchanged >>

\* The head of `for start in sorted(eligible)`: skip a start without
\* successors, break when MAX_CYCLES cycles are collected, else start a search
ForStart ==
    /\ pc = "for_start"
    /\ LET starts == SortedSeq(CycleEligible)
       IN IF dfs_start > Len(starts)
          THEN pc' = "merge" /\ UNCHANGED << dfs_start, dfs_stack, dfs_ops >>
          ELSE IF Adjacency(starts[dfs_start]) = << >>
          THEN /\ dfs_start' = dfs_start + 1
               /\ UNCHANGED << pc, dfs_stack, dfs_ops >>
          ELSE IF Len(found_cycles) >= MAX_CYCLES
          THEN pc' = "merge" /\ UNCHANGED << dfs_start, dfs_stack, dfs_ops >>
          ELSE /\ dfs_stack' = << << starts[dfs_start] >> >>
               /\ dfs_ops' = 0
               /\ pc' = "while_stack"
               /\ UNCHANGED dfs_start
    /\ UNCHANGED << found_cycles, dfs_seen, search_unchanged >>

\* The `for neighbor in adjacency[current]` loop of one pop, with
\* _validate_cycle_edges called on the path that closes; acc is
\* [stack, found, seen].
RECURSIVE ScanNeighbours(_, _, _, _, _)
ScanNeighbours(adj, k, start, path, acc) ==
    IF k > Len(adj) THEN acc
    ELSE LET neighbor == adj[k]
             canonical == CanonicalizeCycle(path)
             next ==
               IF neighbor = start /\ Len(path) >= 3
               THEN IF canonical \notin acc.seen /\ ValidateCycleEdges(path)
                    THEN [acc EXCEPT !.seen = @ \cup {canonical},
                                     !.found = Append(@, path)]
                    ELSE acc
               ELSE IF neighbor \in Range(path) \/ Len(path) >= MAX_DEPTH THEN acc
               ELSE [acc EXCEPT !.stack = Append(@, Append(path, neighbor))]
         IN ScanNeighbours(adj, k + 1, start, path, next)

\* One iteration of `while stack`: count the operation, break over budget,
\* pop, scan the neighbours; an empty stack ends the search from this start
WhileStack ==
    /\ pc = "while_stack"
    /\ LET starts == SortedSeq(CycleEligible)
           path == dfs_stack[Len(dfs_stack)]
           popped == SubSeq(dfs_stack, 1, Len(dfs_stack) - 1)
           after == IF Len(path) > MAX_DEPTH
                    THEN [stack |-> popped, found |-> found_cycles, seen |-> dfs_seen]
                    ELSE ScanNeighbours(Adjacency(path[Len(path)]), 1, starts[dfs_start],
                                        path,
                                        [stack |-> popped, found |-> found_cycles,
                                         seen |-> dfs_seen])
       IN IF dfs_stack = << >> \/ dfs_ops + 1 > MAX_OPS_PER_NODE
          THEN /\ dfs_start' = dfs_start + 1
               /\ dfs_ops' = IF dfs_stack = << >> THEN dfs_ops ELSE dfs_ops + 1
               /\ pc' = "for_start"
               /\ UNCHANGED << dfs_stack, found_cycles, dfs_seen >>
          ELSE /\ dfs_ops' = dfs_ops + 1
               /\ dfs_stack' = after.stack
               /\ found_cycles' = after.found
               /\ dfs_seen' = after.seen
               /\ UNCHANGED << pc, dfs_start >>
    /\ UNCHANGED search_unchanged

SearchNext ==
    \/ LoadClique
    \/ DetectBusinessImmunity
    \/ EnterSearch
    \/ ForStart
    \/ WhileStack

SearchSpec == Init /\ [][SearchNext]_vars

\* ---------------------- detect_cycles' size-bounded merging, cycle by cycle
\* Validated cycles over MergeNodes accounts: 5-cycles that share one account
\* with the next one, and a triangle that closes the chain
CycleMenu ==
    { [i \in 1..5 |-> 4 * k + i] : k \in 0..((MergeNodes - 5) \div 4) }
    \cup { << MergeNodes - 4, MergeNodes - 3, 1 >> }

merge_unchanged ==
    << pc, load_vars, dfs_start, dfs_stack, dfs_ops, dfs_seen, arb, walk, picked,
       immune_accounts,
       account_patterns, velocity_accounts, velocity_24h_accounts, high_degree_hubs,
       found_cycles, smurf_candidates, candidate_rings, fraud_rings, rerun_rings,
       preliminary_scores, suspicion_scores, suspicious_accounts >>

\* One iteration of `for cyc in found_cycles`, on any cycle not yet merged
MergeStep ==
    /\ \E cyc \in CycleMenu \ uf_merge.merged :
         uf_merge' = [m |-> MergeCycle(uf_merge.m, cyc),
                      cyc |-> cyc,
                      merged_size |-> MergedSize(uf_merge.m, cyc),
                      merged |-> uf_merge.merged \cup {cyc}]
    /\ UNCHANGED merge_unchanged

MergeNext == MergeStep

MergeSpec == Init /\ [][MergeNext]_vars

\* ------------------- _check_cycle_constraints, the tests on the amounts
amounts_unchanged ==
    << pc, load_vars, dfs_start, dfs_stack, dfs_ops, dfs_seen, uf_merge, arb, walk,
       immune_accounts, account_patterns, velocity_accounts, velocity_24h_accounts,
       high_degree_hubs, found_cycles, smurf_candidates, candidate_rings, fraud_rings,
       rerun_rings, preliminary_scores, suspicion_scores, suspicious_accounts >>

\* The test that returns None for these amounts: the zero mean, the
\* uniformity test, then the flow test; "pass" when none of them does
AmountVerdict(amounts) ==
    IF SumSeq(amounts) = 0 THEN "mean"
    ELSE IF ~UniformAmounts(amounts) THEN "uniformity"
    ELSE IF ~FlowConserved(amounts) THEN "flow"
    ELSE "pass"

\* _check_cycle_constraints on one selection of edges, one per hop, whose
\* timestamps lie within the window
CheckCycleAmounts ==
    /\ picked.verdict = "none"
    /\ \E n \in MIN_RING_MEMBERS..MaxHops :
         \E amounts \in [1..n -> MinHopAmount..MaxHopAmount] :
            picked' = [amounts |-> amounts, verdict |-> AmountVerdict(amounts)]
    /\ UNCHANGED amounts_unchanged

AmountNext == CheckCycleAmounts

AmountSpec == Init /\ [][AmountNext]_vars

\* ----------------------------------- _find_shell_chains, one pop per step
\* Tables in which each of m accounts pays k pass-through accounts, each of
\* these pays k further pass-through accounts, and each of those pays e
\* accounts: the same amount, a minute apart, layer after layer
WebRows(m, k, e) ==
    [i \in 1..(m * k + k * k + k * e) |->
       IF i <= m * k
       THEN << ((i - 1) \div k) + 1, m + ((i - 1) % k) + 1 >>
       ELSE IF i <= m * k + k * k
       THEN << m + ((i - m * k - 1) \div k) + 1, m + k + ((i - m * k - 1) % k) + 1 >>
       ELSE << m + k + ((i - m * k - k * k - 1) \div e) + 1,
               m + 2 * k + ((i - m * k - k * k - 1) % e) + 1 >>]

WebTables ==
    { [columns |-> REQUIRED_COLUMNS, rows |-> WebRows(WebSources, k, e),
       cells |-> [i \in DOMAIN WebRows(WebSources, k, e) |-> Cell(BaseAmount, i)]] :
        k \in 2..WebShells, e \in 1..WebEnds }

LoadShellWeb ==
    /\ pc = "load"
    /\ \E table \in WebTables :
         LET result == LoadResult(table)
         IN /\ raised' = result.raised
            /\ loaded' = result.loaded
            /\ df' = result.df
            /\ tx' = result.tx
            /\ G' = result.G
            /\ nodes' = result.nodes
            /\ stats' = result.stats
            /\ pc' = IF result.raised = "ValueError" THEN "rejected" ELSE "immunity"
    /\ UNCHANGED << dfs_vars, immune_accounts, account_patterns, velocity_accounts,
                    velocity_24h_accounts, high_degree_hubs, found_cycles,
                    smurf_candidates, candidate_rings, fraud_rings, rerun_rings,
                    preliminary_scores, suspicion_scores, suspicious_accounts >>

walk_unchanged ==
    << pc, load_vars, dfs_start, dfs_stack, dfs_ops, dfs_seen, uf_merge, arb, picked,
       immune_accounts, account_patterns, velocity_accounts, velocity_24h_accounts,
       high_degree_hubs, found_cycles, smurf_candidates, candidate_rings, fraud_rings,
       rerun_rings, preliminary_scores, suspicion_scores, suspicious_accounts >>

\* detect_shells calls _find_shell_chains(node, shell_candidates, ...) for a
\* node that is no candidate: stack = [(start, [start])], paths_found = 0.
\* The candidates and the walk read self.G and self.df only, which no stage
\* between load_data and detect_shells writes.
WalkEnter ==
    /\ loaded /\ raised = "none" /\ walk.source = 0
    /\ \E shell_candidates \in ShellCandidateOutcomes :
         /\ shell_candidates # {}
         /\ \E node \in NodeSet \ shell_candidates :
              walk' = [source |-> node, shell_candidates |-> shell_candidates,
                       stack |-> << << node >> >>, results |-> << >>,
                       paths_found |-> 0, pops |-> 0]
    /\ UNCHANGED walk_unchanged

\* One iteration of `while stack`, unless `paths_found >= 50` breaks the loop
WalkPop ==
    /\ walk.source # 0
    /\ walk.stack # << >> /\ walk.paths_found < MAX_CHAIN_PATHS
    /\ LET path == walk.stack[Len(walk.stack)]
           popped == [walk EXCEPT !.stack = SubSeq(@, 1, Len(@) - 1), !.pops = @ + 1]
       IN walk' = IF Len(path) >= MAX_CHAIN_NODES THEN popped
                  ELSE ChainNeighbours(SuccessorSeq(path[Len(path)]), 1, path,
                                       walk.shell_candidates, popped)
    /\ UNCHANGED walk_unchanged

ChainNext ==
    \/ LoadShellWeb
    \/ WalkEnter
    \/ WalkPop

ChainSpec == Init /\ [][ChainNext]_vars

\* ------------------------------------- _arbitrate_rings, candidate by candidate
\* Candidate rings over eight accounts, of distinct confidence: a cycle, two
\* shell networks, two smurfing rings and a second cycle
ArbMenu ==
    << [members |-> << 1, 2, 3 >>, pattern_type |-> "cycle", risk_score |-> 7600,
        confidence_score |-> 1000, core_account |-> 0],
       [members |-> << 4, 5, 6 >>, pattern_type |-> "shell_network", risk_score |-> 7000,
        confidence_score |-> 900, core_account |-> 0],
       [members |-> << 3, 4, 7 >>, pattern_type |-> "shell_network", risk_score |-> 6500,
        confidence_score |-> 850, core_account |-> 0],
       [members |-> << 1, 2, 3, 4, 5 >>, pattern_type |-> "smurfing", risk_score |-> 6000,
        confidence_score |-> 800, core_account |-> 1],
       [members |-> << 1, 2, 3, 4 >>, pattern_type |-> "smurfing", risk_score |-> 9000,
        confidence_score |-> 700, core_account |-> 2],
       [members |-> << 2, 3, 7, 8 >>, pattern_type |-> "cycle", risk_score |-> 8000,
        confidence_score |-> 600, core_account |-> 0] >>

arb_unchanged ==
    << pc, load_vars, dfs_start, dfs_stack, dfs_ops, dfs_seen, uf_merge, walk, picked,
       immune_accounts, account_patterns, velocity_accounts, velocity_24h_accounts,
       high_degree_hubs, found_cycles, smurf_candidates, candidate_rings, fraud_rings,
       rerun_rings, preliminary_scores, suspicion_scores, suspicious_accounts >>

\* sorted_cands, final_rings = [], used_nodes = set(), node_to_ring_idx = {}
ArbEnter ==
    /\ ~arb.entered
    /\ \E chosen \in SUBSET (DOMAIN ArbMenu) \ {{}} :
         LET order == SortedSeq(chosen)
             candidates == [k \in DOMAIN order |-> ArbMenu[order[k]]]
         IN arb' = [arb EXCEPT !.pending = SortCandidates(candidates), !.entered = TRUE]
    /\ UNCHANGED arb_unchanged

\* One iteration of `for cand in sorted_cands`
ArbStep ==
    /\ arb.entered /\ arb.pending # << >>
    /\ LET cand == Head(arb.pending)
           members == Range(cand.members)
           overlap == members \cap arb.st.used
       IN IF OverlapExceeds(overlap, members)
          THEN \E best \in BestRingChoices(arb.st, overlap) :
                 arb' = [st |-> MergeInto(arb.st, cand, best), prev |-> arb.st,
                         cand |-> cand, target |-> best, pending |-> Tail(arb.pending),
                         entered |-> TRUE, stepped |-> TRUE]
          ELSE arb' = [st |-> AcceptRing(arb.st, cand), prev |-> arb.st,
                       cand |-> cand, target |-> 0, pending |-> Tail(arb.pending),
                       entered |-> TRUE, stepped |-> TRUE]
    /\ UNCHANGED arb_unchanged

ArbNext == ArbEnter \/ ArbStep

ArbSpec == Init /\ [][ArbNext]_vars

\* ======================================================== properties
Arbitrated == pc \in {"hierarchy", "scoring", "json", "done"}
Scored == pc \in {"json", "done"}
Done == pc = "done"
RingMembers(i) == Range(fraud_rings[i].member_accounts)
RingsHolding(a) == {i \in DOMAIN fraud_rings : a \in RingMembers(i)}

\* C1: after arbitration every account id appears in the member_accounts of
\* at most one ring of fraud_rings, whatever the overlap between candidates.
C1_ExclusiveMembership ==
    \A a \in Accounts : Cardinality(RingsHolding(a)) <= 1

\* C2: every final ring has at least 3 members, every ring that is not a
\* cycle has at most 15 members (after the accept path and after any merges),
\* and every smurfing ring has at least 4 members.
C2_RingSizes ==
    \A i \in DOMAIN fraud_rings :
        /\ Len(fraud_rings[i].member_accounts) >= 3
        /\ fraud_rings[i].pattern_type # "cycle" => Len(fraud_rings[i].member_accounts) <= 15
        /\ fraud_rings[i].pattern_type = "smurfing" => Len(fraud_rings[i].member_accounts) >= 4

\* A non-cycle ring that is full, and a candidate that overlapped it by more
\* than 60% while bringing members the ring could not take.
C2_Witness ==
    /\ Arbitrated
    /\ \E i \in DOMAIN fraud_rings, k \in DOMAIN candidate_rings :
         /\ fraud_rings[i].pattern_type = "smurfing"
         /\ Len(fraud_rings[i].member_accounts) = 15
         /\ OverlapExceeds(Range(candidate_rings[k].members) \cap RingMembers(i),
                           Range(candidate_rings[k].members))
         /\ ~(Range(candidate_rings[k].members) \subseteq RingMembers(i))

\* C3: the ring ids are exactly RING_001 .. RING_N in list order, and the list
\* is sorted by (risk_score descending, pattern_type ascending), so risk_score
\* never increases along the ring ids.
RingIdTable ==
    << << "R", "I", "N", "G", "_", "0", "0", "1" >>,
       << "R", "I", "N", "G", "_", "0", "0", "2" >>,
       << "R", "I", "N", "G", "_", "0", "0", "3" >>,
       << "R", "I", "N", "G", "_", "0", "0", "4" >>,
       << "R", "I", "N", "G", "_", "0", "0", "5" >>,
       << "R", "I", "N", "G", "_", "0", "0", "6" >> >>
C3_RingIds ==
    /\ Len(fraud_rings) <= Len(RingIdTable)
    /\ \A i \in DOMAIN fraud_rings : fraud_rings[i].ring_id = RingIdTable[i]
    /\ \A i, j \in DOMAIN fraud_rings :
         i < j =>
           \/ fraud_rings[i].risk_score > fraud_rings[j].risk_score
           \/ /\ fraud_rings[i].risk_score = fraud_rings[j].risk_score
              /\ PatternTypeRank(fraud_rings[i].pattern_type)
                   <= PatternTypeRank(fraud_rings[j].pattern_type)

\* Two rings whose order by risk is the reverse of the order arbitration
\* accepted them in (the riskier one has the lower confidence).
C3_Witness ==
    /\ Arbitrated
    /\ \E i, j \in DOMAIN fraud_rings :
         /\ i < j
         /\ fraud_rings[i].risk_score > fraud_rings[j].risk_score
         /\ fraud_rings[i].pattern_type = "smurfing"
         /\ fraud_rings[j].pattern_type = "cycle"

\* C4: every emitted account has a suspicion score in [25, 100] and a
\* detected_patterns list sorted ascending without duplicates; every final
\* score is 0 or in [25, 100], and an account with score 0 is never emitted.
EmittedIds == {suspicious_accounts[i].account_id : i \in DOMAIN suspicious_accounts}
StrictlyAscendingLabels(ps) ==
    \A i, j \in DOMAIN ps : i < j => LabelRank(ps[i]) < LabelRank(ps[j])
C4_ScoresAndPatterns ==
    /\ Scored =>
         \A n \in NodeSet :
            suspicion_scores[n] = 0
            \/ (2500 <= suspicion_scores[n] /\ suspicion_scores[n] <= 10000)
    /\ Done =>
         /\ \A i \in DOMAIN suspicious_accounts :
               /\ suspicious_accounts[i].suspicion_score >= 2500
               /\ suspicious_accounts[i].suspicion_score <= 10000
               /\ suspicious_accounts[i].suspicion_score
                    = suspicion_scores[suspicious_accounts[i].account_id]
               /\ StrictlyAscendingLabels(suspicious_accounts[i].detected_patterns)
         /\ \A n \in NodeSet : suspicion_scores[n] = 0 => n \notin EmittedIds

\* An account emitted with several labels next to one whose positive
\* preliminary score fell under the threshold and was left out.
C4_Witness ==
    /\ Done
    /\ \E i \in DOMAIN suspicious_accounts :
         Len(suspicious_accounts[i].detected_patterns) >= 2
    /\ \E n \in NodeSet :
         /\ preliminary_scores[n] > 0
         /\ account_patterns[n] \cap STRONG_FRAUD_PATTERNS # {}
         /\ suspicion_scores[n] = 0
         /\ n \notin EmittedIds

\* C5: an account whose final labels all lie in {high_velocity,
\* high_velocity_24h, low_variance, isolation_cluster, payroll, merchant}
\* (or that has no label) has final score 0, whatever bonuses it received.
BenignLabels == {"high_velocity", "high_velocity_24h", "low_variance",
                 "isolation_cluster", "payroll", "merchant"}
C5_BenignLabelsScoreZero ==
    Scored =>
      \A n \in NodeSet : account_patterns[n] \subseteq BenignLabels => suspicion_scores[n] = 0

\* An account with only benign labels whose preliminary score had reached
\* the flag threshold.
C5_Witness ==
    /\ Scored
    /\ \E n \in NodeSet :
         /\ account_patterns[n] # {}
         /\ account_patterns[n] \subseteq BenignLabels
         /\ preliminary_scores[n] >= 2500
         /\ suspicion_scores[n] = 0

\* C6: an account with a label in {cycle_length_3, cycle_length_4,
\* cycle_length_5, shell_account, smurfing} is not set to 0 by immunity
\* suppression nor by high-degree-hub suppression: when its preliminary score
\* reaches the threshold, its final score is positive.  The same holds of the
\* suppression loop applied to the labels of any immune account or hub
\* together with one strong fraud label.
StrongLabels == {"cycle_length_3", "cycle_length_4", "cycle_length_5",
                 "shell_account", "smurfing"}
C6_StrongFraudNotSuppressed ==
    /\ Scored =>
         \A n \in NodeSet :
            (/\ account_patterns[n] \cap StrongLabels # {}
             /\ n \in immune_accounts \cup high_degree_hubs
             /\ preliminary_scores[n] >= 2500)
            => suspicion_scores[n] > 0
    /\ \A n \in immune_accounts \cup high_degree_hubs, s \in StrongLabels :
          FinalScore(n, FLAG_THRESHOLD, account_patterns[n] \cup {s}) > 0

\* A high-degree hub that carries a strong fraud label and keeps its score.
C6_Witness ==
    /\ Scored
    /\ \E n \in high_degree_hubs :
         /\ account_patterns[n] \cap StrongLabels # {}
         /\ suspicion_scores[n] > 0

\* C7: a merchant that takes part in a validated 3-cycle is, after the whole
\* pipeline, a member of the cycle's ring, carries cycle_length_3 and has a
\* suspicion score that immunity did not set to 0.
MerchantsInThreeCycle ==
    {m \in immune_accounts :
        /\ "merchant" \in account_patterns[m]
        /\ \E k \in DOMAIN found_cycles :
              Len(found_cycles[k]) = 3 /\ m \in Range(found_cycles[k])}
C7_MerchantInCycleKept ==
    Done =>
      \A m \in MerchantsInThreeCycle :
         /\ \E i \in DOMAIN fraud_rings :
               fraud_rings[i].pattern_type = "cycle" /\ m \in RingMembers(i)
         /\ "cycle_length_3" \in account_patterns[m]
         /\ suspicion_scores[m] > 0

C9_RunsAgree == rerun_rings = fraud_rings

\* C10: suspicious_accounts is sorted by (suspicion_score descending,
\* account_id ascending), and the member_accounts of every ring are sorted
\* ascending, also after nodes were merged into the ring.
C10_SortedOutput ==
    /\ \A r \in DOMAIN fraud_rings :
         \A i, j \in DOMAIN fraud_rings[r].member_accounts :
            i < j => fraud_rings[r].member_accounts[i] < fraud_rings[r].member_accounts[j]
    /\ \A i, j \in DOMAIN suspicious_accounts :
         i < j =>
           \/ suspicious_accounts[i].suspicion_score > suspicious_accounts[j].suspicion_score
           \/ /\ suspicious_accounts[i].suspicion_score = suspicious_accounts[j].suspicion_score
              /\ suspicious_accounts[i].account_id < suspicious_accounts[j].account_id

\* A ring that took in a node smaller than one it already held, in a run
\* that emitted two accounts with the same score.
C10_Witness ==
    /\ Done
    /\ \E r \in DOMAIN fraud_rings, k \in DOMAIN candidate_rings :
         /\ Range(candidate_rings[k].members) \subseteq RingMembers(r)
         /\ candidate_rings[k].pattern_type = fraud_rings[r].pattern_type
         /\ \E a \in RingMembers(r) \ Range(candidate_rings[k].members) :
               a < Max(Range(candidate_rings[k].members))
    /\ \E i, j \in DOMAIN suspicious_accounts :
         /\ i < j
         /\ suspicious_accounts[i].suspicion_score = suspicious_accounts[j].suspicion_score

\* The triangle A -> B at t0, B -> C an hour later, C -> A an hour after that,
\* BaseAmount each (A, B, C = 1, 2, 3), analysed to the end
TriangleScenario ==
    /\ Done
    /\ df = TriangleRows
    /\ tx = << Cell(BaseAmount, 0), Cell(BaseAmount, HOUR), Cell(BaseAmount, 2 * HOUR) >>

OneTriangleRing ==
    /\ Len(fraud_rings) = 1
    /\ fraud_rings[1].pattern_type = "cycle"
    /\ fraud_rings[1].member_accounts = << 1, 2, 3 >>
    /\ \A a \in 1..3 : "cycle_length_3" \in account_patterns[a]

TriangleSearched ==
    /\ loaded /\ DataKnown
    /\ Len(df) = 3 /\ Range(df) = Range(TriangleRows)
    /\ pc \notin {"load", "immunity", "cycles"}

TriangleAccepted == found_cycles = << << 1, 2, 3 >> >>
TriangleAmountsOf == [i \in DOMAIN tx |-> tx[i].amount]
TriangleTotal == SumSeq(TriangleAmountsOf)

\* Every hop within 15% of the mean, and some hop exactly 15% off it
DeviationAtMost15 ==
    \A i \in DOMAIN tx : 100 * AbsDiff(3 * tx[i].amount, TriangleTotal) <= 15 * TriangleTotal
DeviationExactly15 ==
    /\ DeviationAtMost15
    /\ \E i \in DOMAIN tx : 100 * AbsDiff(3 * tx[i].amount, TriangleTotal) = 15 * TriangleTotal
\* min / max of the hops is exactly 0.70
RatioExactly70 == 10 * Min(Range(TriangleAmountsOf)) = 7 * Max(Range(TriangleAmountsOf))

\* C18: the time test of cycle validation is inclusive: with uniform amounts
\* and no outside transaction, a triangle whose hops span exactly 72 hours is
\* accepted and one spanning more is rejected.
C18_WindowInclusive ==
    (TriangleSearched /\ \A i \in DOMAIN tx : tx[i].amount = BaseAmount)
    => (TriangleAccepted <=> stats.time_span <= 72 * HOUR)

C18_Witness ==
    /\ TriangleSearched /\ TriangleAccepted
    /\ stats.time_span = 72 * HOUR

\* C19: cycle validation is inclusive at the amount boundaries: within the
\* time window and without outside transactions, hops deviating exactly 15%
\* from their mean are accepted, and hops whose min/max ratio is exactly 0.70
\* are accepted.
C19_AmountBoundariesInclusive ==
    (TriangleSearched /\ stats.time_span <= 72 * HOUR)
    => /\ DeviationExactly15 => TriangleAccepted
       /\ RatioExactly70 => TriangleAccepted

\* The payroll table (S = 1 pays R1..R15 = 2..16 about PayrollAmount each
\* within 48 hours), analysed to the end
PayrollScenario ==
    /\ Done /\ DataKnown
    /\ df = PayrollRows
    /\ stats.time_span <= 48 * HOUR

NoRingHolds(a) == \A i \in DOMAIN fraud_rings : a \notin RingMembers(i)
AllScoresZero == \A n \in NodeSet : suspicion_scores[n] = 0

\* C12 as stated: in the payroll scenario S is labelled payroll, no fraud
\* ring contains S, and every account's suspicion score is 0.
C12_PayrollSenderLabelled ==
    PayrollScenario =>
       /\ "payroll" \in account_patterns[1]
       /\ NoRingHolds(1)
       /\ AllScoresZero

\* C12, amended: in the payroll scenario no account is immune and none is
\* labelled payroll (S receives nothing, each receiver has one inbound
\* transaction); no fraud ring contains S, and every account's score is 0.
C12_PayrollScenarioUnflagged ==
    PayrollScenario =>
       /\ immune_accounts = {}
       /\ \A n \in NodeSet : "payroll" \notin account_patterns[n]
       /\ NoRingHolds(1)
       /\ AllScoresZero
       /\ suspicious_accounts = << >>

C12_Witness ==
    /\ PayrollScenario
    /\ account_patterns[1] \cap {"high_velocity_24h", "low_variance"} # {}

\* The smurfing hub H = 1 with its SmurfSenders senders and SmurfReceivers
\* receivers, nobody immune, analysed to the end with the candidate accepted
HubSenders == {NumFocus + i : i \in 1..SmurfSenders}
HubReceivers == {i + 1 : i \in 1..SmurfReceivers}
SmurfRings == {i \in DOMAIN fraud_rings : fraud_rings[i].pattern_type = "smurfing"}
SmurfScenario ==
    /\ Done
    /\ df = SmurfHubRows
    /\ immune_accounts = {}
    /\ SmurfRings # {}

\* The receivers the cap leaves room for, smallest ids first
KeptReceivers ==
    {r \in HubReceivers :
       Cardinality({q \in HubReceivers : q <= r}) <= 15 - 1 - SmurfSenders}

StructuringOnly ==
    {n \in NodeSet : account_patterns[n] \ {"isolation_cluster", "payroll", "merchant"}
                        = {"structuring"}}

\* What a structuring-only account collects besides the anomaly bonus: the
\* weight 12, 10 or 5 for the velocity sets, 8 from the isolation pass
StructuringPoints(n) ==
    1200 + (IF n \in velocity_accounts THEN 1000
            ELSE IF n \in velocity_24h_accounts THEN 500 ELSE 0)
         + (IF "isolation_cluster" \in account_patterns[n] THEN 800 ELSE 0)

\* C14 as stated: an account whose only structural pattern is structuring
\* ends with score 0, whatever its anomaly bonus and velocity signals.
C14_StructuringAloneUnflagged ==
    Scored => \A n \in StructuringOnly : suspicion_scores[n] = 0

\* C14, amended: an account whose only structural pattern is structuring
\* gets 12 points, the anomaly bonus in [0, 15], 10 or 5 points when it is in
\* a velocity set and 8 from the isolation pass; it ends at 0 when that sum is
\* below 25 or it is a commercial hub or immune, and with the sum (at most
\* 45) otherwise.
C14_StructuringAloneScore ==
    Scored =>
       \A n \in StructuringOnly :
          /\ preliminary_scores[n] - StructuringPoints(n) \in 0..1500
          /\ suspicion_scores[n] =
                (IF n \in high_degree_hubs \cup immune_accounts
                    \/ Round1(preliminary_scores[n]) < 2500
                 THEN 0 ELSE Round1(preliminary_scores[n]))
          /\ suspicion_scores[n] <= 4500

C14_Witness ==
    /\ Scored
    /\ \E n \in StructuringOnly :
          suspicion_scores[n] >= 2500 /\ n \in velocity_24h_accounts

\* The stages in the order the pipeline is documented to run them
StageOrder ==
    << "immunity", "cycles", "shells", "velocity", "smurf_extract", "smurf_score",
       "structuring", "cleanup", "consolidate", "hierarchy", "scoring", "json", "done" >>

DetectionStages == {"cycles", "shells", "velocity", "smurf_extract", "smurf_score", "structuring"}

C20_SearchBudgetsAreHardCaps ==
    /\ Len(found_cycles) <= MAX_CYCLES
    /\ dfs_ops <= MAX_OPS_PER_NODE + 1

\* uf.groups() on the merging state: the components of the known accounts
RootOf(m) == [n \in m.known |-> UFFind(m.uf.parent, n)]
TrackedSize(m, r) == IF r \in DOMAIN m.sizes THEN m.sizes[r] ELSE 1

\* C21: in cycle merging every component has at most MAX_RING_SIZE members
\* and the tracked group size of each root is the size of its component; a
\* cycle whose merged size exceeds MAX_RING_SIZE is skipped and joins no two
\* accounts, any other cycle ends with all its accounts in one component of
\* the merged size.
C21_MergedComponentsBounded ==
    [][ LET before == uf_merge.m
            after == uf_merge'.m
            cyc == uf_merge'.cyc
            size == uf_merge'.merged_size
            root0 == RootOf(before)
            root1 == RootOf(after)
            Size1(r) == Cardinality({x \in after.known : root1[x] = r})
        IN /\ \A r \in Range(root1) :
                 Size1(r) <= MAX_RING_SIZE /\ TrackedSize(after, r) = Size1(r)
           /\ size > MAX_RING_SIZE =>
                 /\ \A x, y \in before.known :
                       (root1[x] = root1[y]) = (root0[x] = root0[y])
                 /\ \A n \in Range(cyc) \ before.known : Size1(root1[n]) = 1
                 /\ after.sizes = before.sizes
           /\ size <= MAX_RING_SIZE =>
                 /\ \A n \in Range(cyc) : root1[n] = root1[cyc[1]]
                 /\ Size1(root1[cyc[1]]) = size
      ]_vars

C21_Witness ==
    /\ uf_merge.merged_size > MAX_RING_SIZE
    /\ \E n \in uf_merge.m.known :
          Cardinality({x \in uf_merge.m.known :
                         UFFind(uf_merge.m.uf.parent, x) = UFFind(uf_merge.m.uf.parent, n)})
            = MAX_RING_SIZE

\* The score of steps 1-3 (weights, velocity bonus, anomaly bonus): the
\* preliminary score less the isolation bonus of a labelled account
StepScore(n) ==
    preliminary_scores[n]
      - (IF "isolation_cluster" \in account_patterns[n] THEN ISOLATION_BONUS ELSE 0)

\* C22 as stated: an account gets the isolation bonus and label exactly when
\* its own step 1-3 score is positive and at least two of its neighbours have
\* a step 1-3 score above 30, bonuses of the same pass not counted.
C22_IsolationFromStepScores ==
    Scored =>
       \A n \in NodeSet :
          ("isolation_cluster" \in account_patterns[n])
            = (/\ StepScore(n) > 0
               /\ Cardinality({x \in Neighbours(n) :
                                 StepScore(x) > ISOLATION_NEIGHBOUR_SCORE}) >= 2)

\* What the step 1-3 score holds beyond the capped weights of the labels: the
\* velocity bonus and the anomaly bonus
BeyondWeights(n) == StepScore(n) - MinOf(SumWeights(account_patterns[n]), BASE_SCORE_CAP)

AnomalyValues == {0, AnomalyLevel, ANOMALY_MAX}

HasStructural(n) == account_patterns[n] \cap STRUCTURAL_PATTERNS # {}

\* C23 as stated: the velocity bonus follows the labels at scoring time, +10
\* with high_velocity and a structural label, else +5 with high_velocity_24h
\* and a structural label, else nothing.
C23_VelocityBonusFromLabels ==
    Scored =>
       \A n \in NodeSet :
          BeyondWeights(n)
            - (IF "high_velocity" \in account_patterns[n] /\ HasStructural(n) THEN 1000
               ELSE IF "high_velocity_24h" \in account_patterns[n] /\ HasStructural(n)
                    THEN 500 ELSE 0)
            \in AnomalyValues

\* C23, amended: the velocity bonus follows the sets velocity detection
\* filled, whatever the hierarchy left of the velocity labels: +10 when the
\* account is in the 1-hour set and its labels hold a structural pattern,
\* else +5 when it is in the 24-hour set and its labels hold a structural
\* pattern, else nothing.
C23_VelocityBonusFromSets ==
    Scored =>
       \A n \in NodeSet :
          BeyondWeights(n)
            - (IF n \in velocity_accounts /\ HasStructural(n) THEN 1000
               ELSE IF n \in velocity_24h_accounts /\ HasStructural(n) THEN 500
               ELSE 0)
            \in AnomalyValues

C23_Witness ==
    /\ Scored
    /\ \E n \in velocity_accounts :
          /\ HasStructural(n) /\ "high_velocity" \notin account_patterns[n]
          /\ BeyondWeights(n) - 1000 \in AnomalyValues

\* The hierarchy class of a label, 1 the highest; 0 for the labels that are
\* no classification
ClassRank(label) ==
    CASE label \in {"cycle_length_3", "cycle_length_4", "cycle_length_5"} -> 1
      [] label = "shell_account" -> 2
      [] label \in {"smurfing", "fan_in", "fan_out"} -> 3
      [] label = "structuring" -> 4
      [] label \in {"high_velocity", "high_velocity_24h"} -> 5
      [] label = "low_variance" -> 6
      [] label \in {"isolation_cluster", "payroll", "merchant"} -> 0

ClassesOf(labels) == {ClassRank(l) : l \in labels} \ {0}

\* C24: pattern-hierarchy enforcement leaves every account its labels among
\* isolation_cluster, payroll, merchant plus all its labels of the single
\* highest-priority class it had a label in; afterwards no account holds labels
\* of two classes, and enforcing a second time changes nothing.
C24_HierarchyKeepsTopClass ==
    [][ pc = "hierarchy" =>
          \A a \in Accounts :
             LET before == account_patterns[a]
                 after == account_patterns'[a]
             IN /\ after = {l \in before :
                              \/ ClassRank(l) = 0
                              \/ ClassRank(l) = Min(ClassesOf(before))}
                /\ Cardinality(ClassesOf(after)) <= 1
                /\ KeptPatterns(after) = after
      ]_vars

\* Right after the enforcement: an account the velocity stage had labelled
\* holds a cycle label and no velocity label any more
C24_Witness ==
    /\ pc = "scoring"
    /\ \E a \in velocity_accounts :
          /\ account_patterns[a] \cap {"cycle_length_3", "cycle_length_4", "cycle_length_5"} # {}
          /\ ClassesOf(account_patterns[a]) = {1}

\* C25: in arbitration a candidate is merged into an existing ring iff more
\* than 60% of its members are already claimed (a ratio of exactly 0.6 is
\* accepted as a new ring); the merge goes to the ring holding the largest part
\* of the overlap, adds only nodes no ring had claimed, leaves the target's
\* pattern_type unchanged and sets its risk_score to the larger of the two.
C25_MergeAddsOnlyUnclaimed ==
    arb.stepped =>
      LET members == Range(arb.cand.members)
          overlap == members \cap arb.prev.used
          Held(q) == Cardinality(overlap \cap Range(arb.prev.rings[q].member_accounts))
      IN /\ (arb.target # 0) <=>
              (Cardinality(overlap) * 100 > 60 * Cardinality(members))
         /\ arb.target = 0 /\ Cardinality(members) >= MIN_RING_MEMBERS =>
              /\ Len(arb.st.rings) = Len(arb.prev.rings) + 1
              /\ SubSeq(arb.st.rings, 1, Len(arb.prev.rings)) = arb.prev.rings
         /\ arb.target # 0 =>
              LET old == arb.prev.rings[arb.target]
                  new == arb.st.rings[arb.target]
              IN /\ Len(arb.st.rings) = Len(arb.prev.rings)
                 /\ \A q \in DOMAIN arb.prev.rings :
                       /\ Held(q) <= Held(arb.target)
                       /\ q # arb.target => arb.st.rings[q] = arb.prev.rings[q]
                 /\ Range(new.member_accounts) \ Range(old.member_accounts)
                       \subseteq members \ arb.prev.used
                 /\ new.pattern_type = old.pattern_type
                 /\ new.risk_score = MaxOf(old.risk_score, arb.cand.risk_score)

\* C26: shell chain walking from one source emits at most 50 chains; every
\* emitted chain has at most 4 nodes, starts at the source, which is no shell
\* candidate, ends at a node that is no candidate, repeats no node, and its
\* interior nodes are all shell candidates, at least min_intermediaries of them.
C26_WalkEmitsAtMostFiftyChains ==
    /\ Len(walk.results) <= 50
    /\ \A k \in DOMAIN walk.results :
         LET chain == walk.results[k]
             interior == {chain[i] : i \in 2..(Len(chain) - 1)}
         IN /\ Len(chain) <= 4
            /\ chain[1] = walk.source /\ walk.source \notin walk.shell_candidates
            /\ chain[Len(chain)] \notin walk.shell_candidates
            /\ Cardinality(Range(chain)) = Len(chain)
            /\ interior \subseteq walk.shell_candidates
            /\ Cardinality(interior) >= stats.min_intermediaries

\* C27: for positive amounts of the chosen cycle edges, whenever every amount
\* is within 15% of the mean, min / max >= 0.70 holds as well: the flow test
\* never rejects a selection that passed the uniformity test.
C27_UniformityImpliesFlow ==
    picked.verdict # "none" =>
      /\ picked.verdict # "flow"
      /\ UniformAmounts(picked.amounts) => FlowConserved(picked.amounts)

\* A selection that passed, one of whose amounts is exactly 15% off the mean
C27_Witness ==
    /\ picked.verdict = "pass"
    /\ \E i \in DOMAIN picked.amounts :
          100 * AbsDiff(Len(picked.amounts) * picked.amounts[i], SumSeq(picked.amounts))
            = 15 * SumSeq(picked.amounts)

\* C28: smurf extraction emits at most one candidate per hub, so every
\* core_account has at most one smurfing candidate ring and the per-core
\* consolidation merges nothing: its output holds exactly the input candidates,
\* with their members, risk and confidence unchanged.
C28_ConsolidationMergesNothing ==
    [][/\ \A i, j \in DOMAIN smurf_candidates' :
            i # j => smurf_candidates'[i].hub # smurf_candidates'[j].hub
       /\ pc = "consolidate" =>
         LET Times(rings, r) == Cardinality({i \in DOMAIN rings : rings[i] = r})
         IN /\ \A i, j \in DOMAIN candidate_rings :
                  (/\ i # j
                   /\ candidate_rings[i].pattern_type = "smurfing"
                   /\ candidate_rings[j].pattern_type = "smurfing")
                  => candidate_rings[i].core_account # candidate_rings[j].core_account
            /\ Len(candidate_rings') = Len(candidate_rings)
            /\ \A r \in Range(candidate_rings) \cup Range(candidate_rings') :
                  Times(candidate_rings', r) = Times(candidate_rings, r)]_vars

\* Consolidation has run on a smurfing ring and a ring of another pattern
C28_Witness ==
    /\ pc = "hierarchy"
    /\ \E i, j \in DOMAIN candidate_rings :
          /\ candidate_rings[i].pattern_type = "smurfing"
          /\ candidate_rings[j].pattern_type # "smurfing"

\* C29: no account of the immunity map is a member of a ring of the final
\* fraud_rings: the detectors and the cleanup leave no immune account in a
\* candidate ring, and arbitration takes members from the candidates only.
C29_NoImmuneRingMember ==
    /\ pc \in {"consolidate", "hierarchy", "scoring", "json", "done"} =>
         \A i \in DOMAIN candidate_rings :
            Range(candidate_rings[i].members) \cap immune_accounts = {}
    /\ Arbitrated =>
         \A i \in DOMAIN fraud_rings :
            /\ Range(fraud_rings[i].member_accounts) \cap immune_accounts = {}
            /\ Range(fraud_rings[i].member_accounts)
                 \subseteq UNION {Range(candidate_rings[k].members) : k \in DOMAIN candidate_rings}

\* A run that ended with a ring built around an immune hub, which is not in it
C29_Witness ==
    /\ pc = "done"
    /\ \E i \in DOMAIN candidate_rings :
          /\ candidate_rings[i].pattern_type = "smurfing"
          /\ candidate_rings[i].core_account \in immune_accounts
          /\ \E k \in DOMAIN fraud_rings :
                fraud_rings[k].member_accounts = candidate_rings[i].members

\* C30: pattern-hierarchy enforcement preserves the strong-fraud status of an
\* account: it has a label of STRONG_FRAUD_PATTERNS after enforcement iff it
\* had one before, and the enforcement adds no label.
C30_HierarchyKeepsStrongFraud ==
    [][ pc = "hierarchy" =>
          \A a \in Accounts :
             /\ account_patterns'[a] \subseteq account_patterns[a]
             /\ (account_patterns'[a] \cap STRONG_FRAUD_PATTERNS # {})
                  <=> (account_patterns[a] \cap STRONG_FRAUD_PATTERNS # {})
      ]_vars

\* Right after the enforcement: a smurfing hub that keeps its fan label, or a
\* shell account, which the velocity stage had labelled as well
C30_Witness ==
    /\ pc = "scoring"
    /\ \E a \in Accounts :
          /\ a \in velocity_accounts \cup velocity_24h_accounts
          /\ \/ {"smurfing", "fan_in"} \subseteq account_patterns[a]
             \/ "shell_account" \in account_patterns[a]

\* The engine holds nothing but what __init__ set
Untouched ==
    /\ ~loaded /\ df = << >> /\ tx = << >> /\ nodes = << >>
    /\ G = BuildGraph(<< >>)
    /\ stats = InitialStats
    /\ immune_accounts = {} /\ account_patterns = NoPatterns
    /\ velocity_accounts = {} /\ velocity_24h_accounts = {} /\ high_degree_hubs = {}
    /\ found_cycles = << >> /\ smurf_candidates = << >> /\ candidate_rings = << >>
    /\ fraud_rings = << >> /\ preliminary_scores = << >> /\ suspicion_scores = << >>
    /\ suspicious_accounts = << >>

\* summary.total_accounts_analyzed: len(self.G.nodes()) if self.G else 0
TotalAccountsAnalyzed == IF nodes # << >> THEN Len(nodes) ELSE 0

EmptyTableLoaded == loaded /\ df = << >>

\* C15: for a table with the required columns and no rows, load_data and
\* run_all run to the end without raising, and the report has no fraud ring,
\* no suspicious account and total_accounts_analyzed = 0.
C15_EmptyTableCompletes ==
    /\ pc = "load" =>
          \A table \in InputTables :
             (MissingColumns(table) = {} /\ table.rows = << >>)
             => (LoadResult(table).raised = "none" /\ LoadResult(table).loaded)
    /\ EmptyTableLoaded =>
          /\ raised = "none"
          /\ pc # "rejected"
          /\ ~Done => ENABLED Next
          /\ Done => /\ fraud_rings = << >>
                     /\ suspicious_accounts = << >>
                     /\ TotalAccountsAnalyzed = 0

C15_Witness == EmptyTableLoaded /\ Done

\* C16: when a required column is missing, load_data raises before it assigns
\* anything: table, graph and statistics stay as the constructor left them,
\* and no analysis stage runs.
C16_MissingColumnChangesNothing ==
    /\ pc = "load" =>
          \A table \in InputTables :
             MissingColumns(table) # {} => LoadResult(table).raised = "ValueError"
    /\ raised = "ValueError" => (Untouched /\ pc = "rejected" /\ ~ENABLED Next)

C16_Witness == raised = "ValueError" /\ pc = "rejected"

====
